---- MODULE Spec2Model ----
(***************************************************************************)
(* The run_queue ingestion dispatcher of mcp-ragdocs.                      *)
(*                                                                         *)
(* Two revisions of RunQueueHandler are modelled side by side:             *)
(*   impl = "inline"      the revision whose handle() carries the retry    *)
(*                        loop inline and re-reads queue.txt every batch;  *)
(*   impl = "processItem" the revision with processItem/processBatch and   *)
(*                        a processing.txt side file.                      *)
(* Both delegate an item to AddUrlDocumentationHandler.handle or           *)
(* AddLocalDocumentationHandler.handle.                                    *)
(***************************************************************************)
EXTENDS Integers, Sequences, FiniteSets, TLC

\* ------------------------------------------------------------------ bounds
MaxQueue == 3
MaxBatches == MaxQueue + 2

\* ------------------------------------------------------- program constants
DefaultMaxConcurrent == 3
MaxMaxConcurrent == 5
DefaultRetryAttempts == 3
MaxRetryAttempts == 5
DefaultRetryDelay == 1000
MaxRetryDelay == 10000

\* --------------------------------------------------------- values and inputs
\* A tool argument as JavaScript sees it: a number, or undefined.
Undef == [kind |-> "undefined", val |-> 0]
Num(n) == [kind |-> "number", val |-> n]

MaxConcurrentArgs == {Undef, Num(-1), Num(0), Num(1), Num(2), Num(7)}
RetryAttemptsArgs == {Undef, Num(-1), Num(0), Num(1), Num(2), Num(7)}
RetryDelayArgs == {Undef}
\* the configurations explored: every maxConcurrent with a single attempt,
\* every retry bound with two tasks in flight, and one retry with the small
\* batch sizes
Configs ==
    {a \in [maxConcurrent : MaxConcurrentArgs, retryAttempts : RetryAttemptsArgs,
            retryDelay : RetryDelayArgs] :
        \/ a.maxConcurrent = Num(2)
        \/ a.retryAttempts = Num(1)
        \/ a.maxConcurrent \in {Num(-1), Num(1)} /\ a.retryAttempts = Num(2)}

\* A queue line is a string; it is modelled by the two parts the code looks
\* at: the protocol new URL() would report ("" when it does not parse) and
\* the rest of the text.
HttpUrl == [scheme |-> "http:", name |-> "//x/1"]
GoodPath == [scheme |-> "", name |-> "/docs/a.md"]
MissingPath == [scheme |-> "", name |-> "/missing/file.txt"]
Items == {HttpUrl, GoodPath, MissingPath}

\* The paths fs.access() finds on the file system.
ExistingPaths == {GoodPath}

\* What the delegated processor's collaborators do on one call.
ProcessorOutcomes == {"ok", "acquireError", "zeroChunks", "upsertErrorFirst", "upsertErrorLater"}

Impls == {"inline", "processItem"}

Min(a, b) == IF a < b THEN a ELSE b
Max(a, b) == IF a > b THEN a ELSE b

\* Array.prototype.slice(start, end) on a sequence (0-based, end exclusive,
\* negative indices count from the end).
SliceIndex(len, i) == IF i < 0 THEN Max(len + i, 0) ELSE Min(i, len)
\* mutant: the end index taken one too far
Slice_EndOffByOne(s, start, end) ==
    SubSeq(s, SliceIndex(Len(s), start) + 1, SliceIndex(Len(s), end + 1))
\* mutant: the entries are taken from the end of the array
Slice_FromEnd(s, start, end) ==
    SubSeq(s, Len(s) - SliceIndex(Len(s), end) + 1, Len(s) - SliceIndex(Len(s), start))
Slice(s, start, end) == SubSeq(s, SliceIndex(Len(s), start) + 1, SliceIndex(Len(s), end))
\* mutant: the start index taken one too far
SliceFrom_OffByOne(s, start) == SubSeq(s, SliceIndex(Len(s), start + 1) + 1, Len(s))
SliceFrom(s, start) == SubSeq(s, SliceIndex(Len(s), start) + 1, Len(s))

\* Number(x) || d
NumberOr(raw, d) == IF raw.kind = "number" /\ raw.val # 0 THEN raw.val ELSE d

maxConcurrentOf(a) == Min(NumberOr(a.maxConcurrent, DefaultMaxConcurrent), MaxMaxConcurrent)
\* mutant: the retryAttempts argument is not read
retryAttemptsOf_IgnoresArg(a) == Min(DefaultRetryAttempts, MaxRetryAttempts)
retryAttemptsOf(a) == Min(NumberOr(a.retryAttempts, DefaultRetryAttempts), MaxRetryAttempts)
retryDelayOf(a) == Min(NumberOr(a.retryDelay, DefaultRetryDelay), MaxRetryDelay)

isWebUrl(str) == str.scheme = "http:" \/ str.scheme = "https:"

\* mutant: the existence check never fails
fsAccess_Always(str) == TRUE
fsAccess(str) == str \in ExistingPaths

\* AddUrlDocumentationHandler.handle / AddLocalDocumentationHandler.handle:
\* every error is caught and turned into a returned error response.
formatErrorResponse(error) == [isError |-> TRUE, text |-> error]
AddDocumentationHandle(outcome) ==
    IF outcome = "ok"
    THEN [isError |-> FALSE, text |-> "Successfully added documentation"]
    ELSE formatErrorResponse(outcome)
\* whether the call left at least one point in the collection
Persists(outcome) == outcome \in {"ok", "upsertErrorLater"}

VARIABLES impl, args, queueExists, queueFile, processingExists, processingFile,
          pc, items, batch, task, result, response,
          stored, batchSizes, completedIds, ioFailed, initial,
          call, collection, queueOpen, tracker, listing

\* the state of one run_queue call (the queue store apart)
runVars == <<impl, args, processingExists, processingFile,
             pc, items, batch, task, result, response,
             stored, batchSizes, completedIds, ioFailed, initial>>
\* the queue store
queueVars == <<queueExists, queueFile>>
\* the last call of another tool with its response, and the points of the
\* 'documentation' collection
\* the progress tracker and the list_sources tree, which no queue or removal
\* operation touches
restVars == <<tracker, listing>>
otherVars == <<call, collection, queueOpen, restVars>>

vars == <<runVars, queueVars, otherVars>>

NoCall == [tool |-> "none"]

\* new QueueProgressTracker(totalItems, updateCallback) at the time now.
\* Arrays are objects: a field holding an array holds its index in arrays.
\* held lists the QueueProgress values that left the tracker, each with the
\* contents it had when it was obtained (was); the observer is handed the
\* tracker's own object (alias), getProgress a new one (obj). before is the
\* tracker's state before the last change a client made to a value it holds,
\* and clean says that no client has made one. calls lists the
\* startProcessing, completeItem and failItem calls made so far.
Construct(totalItems, hasCallback, now) ==
    [progress |-> [totalItems |-> totalItems, processing |-> 1, completed |-> 0,
                   failed |-> 0, errors |-> 2, startTime |-> now,
                   estimatedTimeRemaining |-> Undef],
     arrays |-> << <<>>, <<>> >>,
     hasCallback |-> hasCallback,
     now |-> now,
     held |-> <<>>,
     op |-> "constructor",
     calls |-> <<>>,
     before |-> Undef,
     clean |-> TRUE]

\* const root: TreeNode = { name: '', isFolder: true, children: new Map() };
\* a node is found by its path from the root, and keys lists the keys of
rootNode == [name |-> "", isFolder |-> TRUE, keys |-> <<>>]
\* its children Map in insertion order; lines is the output once rendered
NoListing == [inserted |-> <<>>, nodes |-> (<<>> :> rootNode), rendered |-> FALSE, lines |-> <<>>]

RestInit ==
    /\ tracker = Construct(0, FALSE, 0)
    /\ listing = NoListing

Ids == 1 .. MaxQueue

RECURSIVE SeqsUpTo(_, _)
SeqsUpTo(S, n) == IF n = 0 THEN {<<>>}
                  ELSE LET shorter == SeqsUpTo(S, n - 1)
                       IN shorter \cup {Append(s, x) : s \in {t \in shorter : Len(t) = n - 1}, x \in S}

\* queue.txt holds one line per entry; every entry carries its position in
\* the queue at the start of the run as an identity.
QueueOf(s) == [i \in 1 .. Len(s) |-> [id |-> i, item |-> s[i]]]

NewTask == [phase |-> "queued", attempts |-> 0, lastError |-> "none",
            made |-> 0, calls |-> 0, procOk |-> FALSE, procFailed |-> FALSE,
            delays |-> 0, waited |-> <<>>, batchNo |-> 0,
            ret |-> [success |-> FALSE, error |-> "none", attempts |-> 0, hasAttempts |-> FALSE]]

Init ==
    /\ impl \in Impls
    /\ args \in Configs
    /\ \E s \in SeqsUpTo(Items, MaxQueue) :
          /\ queueFile = QueueOf(s)
          /\ initial = QueueOf(s)
          /\ queueExists \in (IF s = <<>> THEN {TRUE, FALSE} ELSE {TRUE})
    /\ processingExists = FALSE
    /\ processingFile = <<>>
    /\ pc = IF impl = "inline" THEN "access" ELSE "read"
    /\ items = <<>>
    /\ batch = <<>>
    /\ task = [i \in Ids |-> NewTask]
    /\ result = [completed |-> 0, failed |-> 0, errors |-> <<>>]
    /\ response = "none"
    /\ stored = {}
    /\ batchSizes = <<>>
    /\ completedIds = {}
    /\ ioFailed = FALSE
    /\ call = NoCall
    /\ collection = {}
    /\ queueOpen = FALSE
    /\ RestInit

\* --------------------------------------------------------- per-item tasks
Terminal(t) == t.phase \in {"ok", "failed"}
InFlight(t) == t.phase \in {"access", "processing", "delay"}

AccessErrorMessage(i) == IF i = "inline" THEN "ENOENT" ELSE "File not accessible"

\* mutant: the last error message is not carried into the result
FailureResult_DropsMessage(i, t) ==
    [success |-> FALSE,
     error |-> "Unknown error",
     attempts |-> IF i = "inline" /\ t.attempts = 0 THEN 1 ELSE t.attempts,
     hasAttempts |-> TRUE]

\* the value returned after the retry loop is left without a success
FailureResult(i, t) ==
    [success |-> FALSE,
     error |-> IF t.lastError = "none" THEN "Unknown error" ELSE t.lastError,
     attempts |-> IF i = "inline" /\ t.attempts = 0 THEN 1 ELSE t.attempts,
     hasAttempts |-> TRUE]

SuccessResult(i, t) ==
    [success |-> TRUE, error |-> "none",
     attempts |-> IF i = "inline" THEN 0 ELSE t.attempts,
     hasAttempts |-> (i # "inline")]

\* mutant: the loop test lets one attempt too many through
EnterLoop_OffByOne(i, t, item, ra) ==
    IF t.attempts <= ra
    THEN IF isWebUrl(item)
         THEN [t EXCEPT !.attempts = @ + 1, !.made = @ + 1, !.calls = @ + 1, !.phase = "processing"]
         ELSE [t EXCEPT !.attempts = @ + 1, !.made = @ + 1, !.phase = "access"]
    ELSE [t EXCEPT !.phase = "failed", !.ret = FailureResult(i, t)]

\* the loop test and, when it passes, the start of one attempt up to its
\* first await
EnterLoop(i, t, item, ra) ==
    IF t.attempts < ra
    THEN IF isWebUrl(item)
         THEN [t EXCEPT !.attempts = @ + 1, !.made = @ + 1, !.calls = @ + 1, !.phase = "processing"]
         ELSE [t EXCEPT !.attempts = @ + 1, !.made = @ + 1, !.phase = "access"]
    ELSE [t EXCEPT !.phase = "failed", !.ret = FailureResult(i, t)]

\* mutant: the delay is waited after the last attempt as well
CatchError_WaitsAfterLast(i, t, item, err, ra) ==
    LET t1 == [t EXCEPT !.lastError = err]
    IN [t1 EXCEPT !.phase = "delay", !.waited = Append(@, retryDelayOf(args))]
\* the catch block of one attempt: wait retryDelay when attempts are left,
\* otherwise go straight back to the loop test
CatchError(i, t, item, err, ra) ==
    LET t1 == [t EXCEPT !.lastError = err]
    IN IF t1.attempts < ra
       THEN [t1 EXCEPT !.phase = "delay", !.waited = Append(@, retryDelayOf(args))]
       ELSE EnterLoop(i, t1, item, ra)

\* Promise.all(batch.map(...)): every task runs to its first await
StartBatch(b) ==
    [i \in Ids |->
        IF \E k \in 1 .. Len(b) : b[k].id = i
        THEN LET item == (CHOOSE k \in 1 .. Len(b) : b[k].id = i)
             IN EnterLoop(impl, [NewTask EXCEPT !.batchNo = Len(batchSizes) + 1],
                          b[item].item, retryAttemptsOf(args))
        ELSE task[i]]

ItemOf(i) == initial[i].item

\* mutant: a pending retry delay holds every other task of the batch back
AccessReturns_Blocked(i) ==
    /\ pc = "batch"
    /\ task[i].phase = "access"
    /\ \A j \in Ids : task[j].phase # "delay"
    /\ IF fsAccess(ItemOf(i))
       THEN task' = [task EXCEPT ![i].phase = "processing", ![i].calls = @ + 1]
       ELSE task' = [task EXCEPT ![i] = CatchError(impl, @, ItemOf(i), AccessErrorMessage(impl),
                                                   retryAttemptsOf(args))]
    /\ UNCHANGED <<impl, args, queueExists, queueFile, processingExists, processingFile,
                   pc, items, batch, result, response, stored, batchSizes, completedIds,
                   ioFailed, initial>>
    /\ UNCHANGED otherVars

\* fs.access(item) settles
AccessReturns(i) ==
    /\ pc = "batch"
    /\ task[i].phase = "access"
    /\ IF fsAccess(ItemOf(i))
       THEN task' = [task EXCEPT ![i].phase = "processing", ![i].calls = @ + 1]
       ELSE task' = [task EXCEPT ![i] = CatchError(impl, @, ItemOf(i), AccessErrorMessage(impl),
                                                   retryAttemptsOf(args))]
    /\ UNCHANGED <<impl, args, queueExists, queueFile, processingExists, processingFile,
                   pc, items, batch, result, response, stored, batchSizes, completedIds,
                   ioFailed, initial>>
    /\ UNCHANGED otherVars

\* the delegated handler returns (it never throws)
ProcessorReturns(i) ==
    /\ pc = "batch"
    /\ task[i].phase = "processing"
    /\ \E o \in ProcessorOutcomes :
          LET resp == AddDocumentationHandle(o)
          IN /\ stored' = IF Persists(o) THEN stored \cup {i} ELSE stored
             /\ task' = [task EXCEPT ![i].phase = "ok",
                                     ![i].procOk = @ \/ ~resp.isError,
                                     ![i].procFailed = @ \/ resp.isError,
                                     ![i].ret = SuccessResult(impl, task[i])]
    /\ UNCHANGED <<impl, args, queueExists, queueFile, processingExists, processingFile,
                   pc, items, batch, result, response, batchSizes, completedIds,
                   ioFailed, initial>>
    /\ UNCHANGED otherVars

\* the retry delay elapses
DelayEnds(i) ==
    /\ pc = "batch"
    /\ task[i].phase = "delay"
    /\ task' = [task EXCEPT ![i] = EnterLoop(impl, [@ EXCEPT !.delays = @ + 1], ItemOf(i),
                                             retryAttemptsOf(args))]
    /\ UNCHANGED <<impl, args, queueExists, queueFile, processingExists, processingFile,
                   pc, items, batch, result, response, stored, batchSizes, completedIds,
                   ioFailed, initial>>
    /\ UNCHANGED otherVars

\* ------------------------------------------------------------- the tally
BatchIds(b) == {b[k].id : k \in 1 .. Len(b)}
Failures(b) == SelectSeq(b, LAMBDA l : ~task[l.id].ret.success)
Successes(b) == SelectSeq(b, LAMBDA l : task[l.id].ret.success)
ErrorEntry(l) ==
    LET r == task[l.id].ret
    IN [id |-> l.id, item |-> l.item, error |-> r.error,
        attempts |-> IF impl = "inline" /\ r.attempts = 0 THEN 1 ELSE r.attempts]
\* mutant: a failed item is also counted as completed
Tally_CountsAll(b) ==
    [completed |-> result.completed + Len(b),
     failed |-> result.failed + Len(Failures(b)),
     errors |-> result.errors \o [k \in 1 .. Len(Failures(b)) |-> ErrorEntry(Failures(b)[k])]]
Tally(b) ==
    [completed |-> result.completed + Len(Successes(b)),
     failed |-> result.failed + Len(Failures(b)),
     errors |-> result.errors \o [k \in 1 .. Len(Failures(b)) |-> ErrorEntry(Failures(b)[k])]]

\* mutant: the batch is joined as soon as one task has settled
AllTerminal_Any(b) == \E k \in 1 .. Len(b) : Terminal(task[b[k].id])
AllTerminal(b) == \A k \in 1 .. Len(b) : Terminal(task[b[k].id])

\* ------------------------------------------------- handle(), inline revision
InlineAccess ==
    /\ impl = "inline" /\ pc = "access"
    /\ IF queueExists
       THEN pc' = "read" /\ response' = response
       ELSE pc' = "done" /\ response' = "queueEmpty"
    /\ UNCHANGED <<impl, args, queueExists, queueFile, processingExists, processingFile,
                   items, batch, task, result, stored, batchSizes, completedIds,
                   ioFailed, initial>>
    /\ UNCHANGED otherVars

InlineRead ==
    /\ impl = "inline" /\ pc = "read"
    /\ items' = queueFile
    /\ IF Len(queueFile) = 0
       THEN /\ pc' = "done" /\ response' = "summary"
            /\ UNCHANGED <<batch, task, batchSizes>>
       ELSE /\ Len(batchSizes) < MaxBatches
            /\ batch' = Slice(queueFile, 0, maxConcurrentOf(args))
            /\ task' = StartBatch(batch')
            /\ batchSizes' = Append(batchSizes, Len(batch'))
            /\ pc' = "batch"
            /\ response' = response
    /\ UNCHANGED <<impl, args, queueExists, queueFile, processingExists, processingFile,
                   result, stored, completedIds, ioFailed, initial>>
    /\ UNCHANGED otherVars

InlineReadFails ==
    /\ impl = "inline" /\ pc = "read"
    /\ pc' = "error" /\ response' = "errorResponse" /\ ioFailed' = TRUE
    /\ UNCHANGED <<impl, args, queueExists, queueFile, processingExists, processingFile,
                   items, batch, task, result, stored, batchSizes, completedIds, initial>>
    /\ UNCHANGED otherVars

InlineJoin ==
    /\ impl = "inline" /\ pc = "batch"
    /\ AllTerminal(batch)
    /\ result' = Tally(batch)
    /\ completedIds' = completedIds \cup BatchIds(Successes(batch))
    /\ pc' = "write"
    /\ UNCHANGED <<impl, args, queueExists, queueFile, processingExists, processingFile,
                   items, batch, task, response, stored, batchSizes, ioFailed, initial>>
    /\ UNCHANGED otherVars

InlineWrite ==
    /\ impl = "inline" /\ pc = "write"
    /\ queueFile' = SliceFrom(items, Len(batch))
    /\ pc' = "read"
    /\ UNCHANGED <<impl, args, queueExists, processingExists, processingFile,
                   items, batch, task, result, response, stored, batchSizes, completedIds,
                   ioFailed, initial>>
    /\ queueOpen' = FALSE
    /\ UNCHANGED <<call, collection, restVars>>

\* mutant: the failed rewrite is swallowed and the loop goes on
InlineWriteFails_Swallowed ==
    /\ impl = "inline" /\ pc = "write"
    /\ pc' = "read" /\ ioFailed' = TRUE
    /\ UNCHANGED <<impl, args, queueExists, queueFile, processingExists, processingFile,
                   items, batch, task, result, response, stored, batchSizes, completedIds,
                   initial>>
    /\ UNCHANGED otherVars

InlineWriteFails ==
    /\ impl = "inline" /\ pc = "write"
    /\ pc' = "error" /\ response' = "errorResponse" /\ ioFailed' = TRUE
    /\ UNCHANGED <<impl, args, queueExists, queueFile, processingExists, processingFile,
                   items, batch, task, result, stored, batchSizes, completedIds, initial>>
    /\ UNCHANGED otherVars

\* -------------------------------------------- handle(), processItem revision
\* readFile(QUEUE_FILE) and the split; an absent file and an empty one both
\* throw McpError(InvalidRequest, 'Queue is empty')
BatchedRead ==
    /\ impl = "processItem" /\ pc = "read"
    /\ IF ~queueExists \/ Len(queueFile) = 0
       THEN /\ pc' = "error" /\ response' = "thrown"
            /\ UNCHANGED <<items, batch>>
       ELSE /\ items' = queueFile
            /\ batch' = Slice(queueFile, 0, maxConcurrentOf(args))
            /\ pc' = "updateProcessing"
            /\ response' = response
    /\ UNCHANGED <<impl, args, queueExists, queueFile, processingExists, processingFile,
                   task, result, stored, batchSizes, completedIds, ioFailed, initial>>
    /\ UNCHANGED otherVars

BatchedReadFails ==
    /\ impl = "processItem" /\ pc = "read"
    /\ queueExists
    /\ pc' = "error" /\ response' = "thrown" /\ ioFailed' = TRUE
    /\ UNCHANGED <<impl, args, queueExists, queueFile, processingExists, processingFile,
                   items, batch, task, result, stored, batchSizes, completedIds, initial>>
    /\ UNCHANGED otherVars

\* updateProcessingItems(batch), then processBatch starts every task
updateProcessingItems ==
    /\ impl = "processItem" /\ pc = "updateProcessing"
    /\ Len(batchSizes) < MaxBatches
    /\ processingExists' = TRUE
    /\ processingFile' = batch
    /\ task' = StartBatch(batch)
    /\ batchSizes' = Append(batchSizes, Len(batch))
    /\ pc' = "batch"
    /\ UNCHANGED <<impl, args, queueExists, queueFile, items, batch, result, response,
                   stored, completedIds, ioFailed, initial>>
    /\ UNCHANGED otherVars

updateProcessingItemsFails ==
    /\ impl = "processItem" /\ pc = "updateProcessing"
    /\ pc' = "error" /\ response' = "thrown" /\ ioFailed' = TRUE
    /\ UNCHANGED <<impl, args, queueExists, queueFile, processingExists, processingFile,
                   items, batch, task, result, stored, batchSizes, completedIds, initial>>
    /\ UNCHANGED otherVars

BatchedJoin ==
    /\ impl = "processItem" /\ pc = "batch"
    /\ AllTerminal(batch)
    /\ result' = Tally(batch)
    /\ completedIds' = completedIds \cup BatchIds(Successes(batch))
    /\ items' = SliceFrom(items, maxConcurrentOf(args))
    /\ pc' = "removeFromProcessing"
    /\ UNCHANGED <<impl, args, queueExists, queueFile, processingExists, processingFile,
                   batch, task, response, stored, batchSizes, ioFailed, initial>>
    /\ UNCHANGED otherVars

\* removeFromProcessing(batch): lines are compared as strings
removeFromProcessing ==
    /\ impl = "processItem" /\ pc = "removeFromProcessing"
    /\ IF processingExists
       THEN LET remainingItems ==
                    SelectSeq(processingFile,
                              LAMBDA l : ~\E k \in 1 .. Len(batch) : batch[k].item = l.item)
            IN IF Len(remainingItems) > 0
               THEN processingFile' = remainingItems /\ processingExists' = TRUE
               ELSE processingFile' = <<>> /\ processingExists' = FALSE
       ELSE UNCHANGED <<processingExists, processingFile>>
    /\ pc' = "write"
    /\ UNCHANGED <<impl, args, queueExists, queueFile, items, batch, task, result, response,
                   stored, batchSizes, completedIds, ioFailed, initial>>
    /\ UNCHANGED otherVars

removeFromProcessingFails ==
    /\ impl = "processItem" /\ pc = "removeFromProcessing"
    /\ processingExists
    /\ pc' = "error" /\ response' = "thrown" /\ ioFailed' = TRUE
    /\ UNCHANGED <<impl, args, queueExists, queueFile, processingExists, processingFile,
                   items, batch, task, result, stored, batchSizes, completedIds, initial>>
    /\ UNCHANGED otherVars

\* mutant: the queue file is not removed after the last batch
BatchedWrite_NoUnlink ==
    /\ impl = "processItem" /\ pc = "write"
    /\ IF Len(items) > 0
       THEN /\ queueFile' = items /\ queueExists' = TRUE
            /\ batch' = Slice(items, 0, maxConcurrentOf(args))
            /\ pc' = "updateProcessing"
            /\ response' = response
       ELSE /\ UNCHANGED <<queueFile, queueExists>>
            /\ batch' = batch
            /\ pc' = "done"
            /\ response' = "summary"
    /\ UNCHANGED <<impl, args, processingExists, processingFile, items, task, result,
                   stored, batchSizes, completedIds, ioFailed, initial>>
    /\ queueOpen' = (Len(items) > 0)
    /\ UNCHANGED <<call, collection, restVars>>

\* mutant: the queue file is rewritten only once the whole queue is done
BatchedWrite_Deferred ==
    /\ impl = "processItem" /\ pc = "write"
    /\ IF Len(items) > 0
       THEN /\ UNCHANGED <<queueFile, queueExists>>
            /\ batch' = Slice(items, 0, maxConcurrentOf(args))
            /\ pc' = "updateProcessing"
            /\ response' = response
       ELSE /\ queueFile' = <<>> /\ queueExists' = FALSE
            /\ batch' = batch
            /\ pc' = "done"
            /\ response' = "summary"
    /\ UNCHANGED <<impl, args, processingExists, processingFile, items, task, result,
                   stored, batchSizes, completedIds, ioFailed, initial>>
    /\ queueOpen' = IF Len(items) > 0 THEN queueOpen ELSE FALSE
    /\ UNCHANGED <<call, collection, restVars>>

\* writeFile(QUEUE_FILE, items) or unlink(QUEUE_FILE), then the loop test
BatchedWrite ==
    /\ impl = "processItem" /\ pc = "write"
    /\ IF Len(items) > 0
       THEN /\ queueFile' = items /\ queueExists' = TRUE
            /\ batch' = Slice(items, 0, maxConcurrentOf(args))
            /\ pc' = "updateProcessing"
            /\ response' = response
       ELSE /\ queueFile' = <<>> /\ queueExists' = FALSE
            /\ batch' = batch
            /\ pc' = "done"
            /\ response' = "summary"
    /\ UNCHANGED <<impl, args, processingExists, processingFile, items, task, result,
                   stored, batchSizes, completedIds, ioFailed, initial>>
    /\ queueOpen' = (Len(items) > 0)
    /\ UNCHANGED <<call, collection, restVars>>

BatchedWriteFails ==
    /\ impl = "processItem" /\ pc = "write"
    /\ pc' = "error" /\ response' = "thrown" /\ ioFailed' = TRUE
    /\ UNCHANGED <<impl, args, queueExists, queueFile, processingExists, processingFile,
                   items, batch, task, result, stored, batchSizes, completedIds, initial>>
    /\ UNCHANGED otherVars

Next ==
    \/ InlineAccess
    \/ InlineRead
    \/ InlineReadFails
    \/ InlineJoin
    \/ InlineWrite
    \/ InlineWriteFails
    \/ BatchedRead
    \/ BatchedReadFails
    \/ updateProcessingItems
    \/ updateProcessingItemsFails
    \/ BatchedJoin
    \/ removeFromProcessing
    \/ removeFromProcessingFails
    \/ BatchedWrite
    \/ BatchedWriteFails
    \/ \E i \in Ids : AccessReturns(i)
    \/ \E i \in Ids : ProcessorReturns(i)
    \/ \E i \in Ids : DelayEnds(i)

Spec == Init /\ [][Next]_vars

\* ------------------------------------------------------------ the claims
Summary == pc = "done" /\ response = "summary"
Entries == DOMAIN initial
Queued(i) == \E k \in 1 .. Len(queueFile) : queueFile[k].id = i
Dispatched(i) == task[i].batchNo > 0
ErrorsOf(i) == {k \in 1 .. Len(result.errors) : result.errors[k].id = i}

\* the documented reading of the arguments: the value given, or the documented
\* default when the argument is absent
ConfiguredMaxConcurrent ==
    IF args.maxConcurrent.kind = "number" THEN args.maxConcurrent.val ELSE 3
ConfiguredRetryAttempts ==
    IF args.retryAttempts.kind = "number" THEN args.retryAttempts.val ELSE 3
DocumentedMaxConcurrent == ConfiguredMaxConcurrent \in 1 .. 5
DocumentedRetryAttempts == ConfiguredRetryAttempts \in 0 .. 5

\* an item that went to its delegated processor, whose every call ended in an
\* error (acquisition, zero chunks or upsert)
ProcessorAlwaysFailed(i) == Dispatched(i) /\ task[i].calls > 0 /\ ~task[i].procOk
\* an item none of whose attempts succeeded
AlwaysFailed(i) == Dispatched(i) /\ Terminal(task[i]) /\ ~task[i].procOk

\* C1: when the summary is returned, every Url or existing Path whose
\* delegated processor failed on every attempt is listed in the failure list,
\* is counted in failed, and is not counted as completed.
C1_ProcessorFailureIsRecorded ==
    Summary =>
        \A i \in Entries :
            ProcessorAlwaysFailed(i) =>
                /\ i \notin completedIds
                /\ ErrorsOf(i) # {}
                /\ result.failed >= 1

\* C2: for every documented configuration (retryAttempts 0..5 or absent), an
\* item that fails on every attempt is attempted exactly retryAttempts times
\* and its failure entry reports attempts = retryAttempts.
C2_ExactlyRetryAttempts ==
    (Summary /\ DocumentedRetryAttempts) =>
        \A i \in Entries :
            AlwaysFailed(i) =>
                /\ task[i].made = ConfiguredRetryAttempts
                /\ ErrorsOf(i) # {}
                /\ \A k \in ErrorsOf(i) : result.errors[k].attempts = ConfiguredRetryAttempts

ReportsAttempts(i) == Terminal(task[i]) /\ task[i].ret.hasAttempts

CeilDiv(n, k) == (n + k - 1) \div k

\* C4: a run that returns its summary for a queue of n entries with a
\* documented maxConcurrent k dispatched exactly ceil(n/k) batches, each but
\* the last of k items and the last of 1..k items.
C4_BatchCount ==
    (Summary /\ DocumentedMaxConcurrent) =>
        LET n == Len(initial)
            k == ConfiguredMaxConcurrent
        IN /\ Len(batchSizes) = CeilDiv(n, k)
           /\ \A b \in 1 .. Len(batchSizes) :
                 IF b < Len(batchSizes) THEN batchSizes[b] = k
                 ELSE batchSizes[b] >= 1 /\ batchSizes[b] <= k

C4_Witness ==
    /\ Summary
    /\ args.maxConcurrent = Num(2)
    /\ Len(initial) = 3
    /\ batchSizes = <<2, 1>>

InFlightIds == {i \in Ids : InFlight(task[i])}

\* C5: at most maxConcurrent tasks are in flight, all of them in the batch
\* dispatched last, and a batch is dispatched only when every task started
\* before it is terminal.
C5_BoundedConcurrency ==
    /\ [](/\ DocumentedMaxConcurrent => Cardinality(InFlightIds) <= ConfiguredMaxConcurrent
          /\ \A i \in InFlightIds : task[i].batchNo = Len(batchSizes))
    /\ [][batchSizes' # batchSizes =>
            \A i \in Ids : Dispatched(i) => Terminal(task[i])]_vars

C5_Witness ==
    /\ args.maxConcurrent = Num(2)
    /\ Cardinality(InFlightIds) = 2
    /\ Len(batchSizes) = 1
    /\ \E i \in Entries : ~Dispatched(i)

\* C6: when the summary is returned no entry queued at the start is still in
\* the queue store, whether it succeeded or exhausted its retries.
C6_QueueConsumed ==
    Summary => \A i \in Entries : ~Queued(i)

C6_Witness ==
    /\ Summary
    /\ result.failed > 0
    /\ result.completed > 0
    /\ Len(initial) = MaxQueue
    /\ \A i \in Entries : ~Queued(i)

\* C7: an entry queued at the start that has no terminal result is still in
\* the queue store, and an entry is gone from the store only when every task
\* of its batch is terminal.
C7_NoUnprocessedLoss ==
    \A i \in Entries :
        /\ ~Terminal(task[i]) => (queueExists /\ Queued(i))
        /\ ~Queued(i) =>
              \A j \in Entries : task[j].batchNo = task[i].batchNo => Terminal(task[j])

C7_Witness ==
    \E i, j \in Entries :
        /\ task[i].batchNo = task[j].batchNo
        /\ Terminal(task[i]) /\ InFlight(task[j])
        /\ Queued(i) /\ Queued(j)

Duplicated == {i \in Entries : Queued(i) /\ i \in stored}

\* C8: the entries that are both still in the queue store and already
\* persisted by a processor all belong to the batch dispatched last, so there
\* are at most maxConcurrent of them.
C8_DuplicatesWithinBatch ==
    /\ \A i \in Duplicated : task[i].batchNo = Len(batchSizes)
    /\ DocumentedMaxConcurrent => Cardinality(Duplicated) <= ConfiguredMaxConcurrent

C8_Witness ==
    /\ args.maxConcurrent = Num(2)
    /\ Cardinality(Duplicated) = 2
    /\ pc = "write"
    /\ \E i \in Entries : ~Dispatched(i)

FairSpec == Spec /\ WF_vars(Next)

\* C9: an item exhausting its retries does not abort the run: the run ends
\* in an error only after a store failure or on an empty queue, a run with a
\* failed item goes on to return its summary unless a store operation fails,
\* and the summary lists every failed item once with its last error message
\* and its attempt count.
C9_FailureIsNotFatal ==
    /\ [](pc = "error" => (ioFailed \/ Len(batchSizes) = 0))
    /\ [](Summary =>
            \A i \in Entries :
                /\ Dispatched(i) /\ Terminal(task[i])
                /\ (task[i].phase = "failed" /\ task[i].made > 0) =>
                      /\ Cardinality(ErrorsOf(i)) = 1
                      /\ \A k \in ErrorsOf(i) :
                            /\ result.errors[k].error = task[i].lastError
                            /\ result.errors[k].attempts = task[i].attempts)
    /\ ((DocumentedMaxConcurrent /\ \E i \in Entries : task[i].phase = "failed" /\ task[i].made > 0)
            ~> (Summary \/ ioFailed))

C9_Witness ==
    /\ Summary
    /\ Len(batchSizes) = 2
    /\ task[1].phase = "failed"
    /\ task[1].lastError # "none"
    /\ \E i \in Entries : task[i].phase = "ok" /\ task[i].batchNo = 2

\* C10: once a read or rewrite of the store has failed the run is over with
\* a failure outcome: nothing more happens (no batch is dispatched, no store
\* operation is tried again), and the failing step itself changes neither
\* the store nor the batches.
C10_StoreFailureAborts ==
    /\ [](ioFailed => (pc = "error" /\ response \in {"errorResponse", "thrown"}))
    /\ [][ioFailed => UNCHANGED vars]_vars
    /\ [][(ioFailed' /\ ~ioFailed) => UNCHANGED <<queueFile, queueExists, batchSizes, task>>]_vars

C10_Witness ==
    /\ ioFailed
    /\ pc = "error"
    /\ Len(batchSizes) = 1
    /\ \E i \in Entries : Queued(i) /\ ~Dispatched(i)


\* an argument given as a number outside its documented range
\* (maxConcurrent 1..5, retryAttempts 0..5)
ArgsOutOfRange ==
    \/ args.maxConcurrent.kind = "number" /\ args.maxConcurrent.val \notin 1 .. MaxMaxConcurrent
    \/ args.retryAttempts.kind = "number" /\ args.retryAttempts.val \notin 0 .. MaxRetryAttempts

\* C11: a run_queue call whose maxConcurrent or retryAttempts lies outside
\* its documented range is rejected before anything is processed: no batch
\* is ever dispatched and the call does not end with a normal result.
C11_OutOfRangeRejected ==
    ArgsOutOfRange =>
        /\ batchSizes = <<>>
        /\ \A i \in Ids : ~Dispatched(i)
        /\ response \notin {"summary", "queueEmpty"}

\* C12: a run over a queue store that is absent or holds no entry ends, when
\* no store operation fails, with a non-error result of zero completed and
\* zero failed, having dispatched nothing and persisted nothing, and leaves
\* the store as it was.
C12_EmptyQueueIsNoOp ==
    (Len(initial) = 0 /\ pc \in {"done", "error"} /\ ~ioFailed) =>
        /\ pc = "done"
        /\ response \in {"summary", "queueEmpty"}
        /\ result.completed = 0 /\ result.failed = 0 /\ result.errors = <<>>
        /\ batchSizes = <<>> /\ stored = {}
        /\ queueFile = <<>>


MissingPathItem(i) == ~isWebUrl(ItemOf(i)) /\ ItemOf(i) \notin ExistingPaths

\* C14 as stated: a Path item whose path does not exist reaches its failed
\* state without the local-file processor being invoked for it and without
\* any retry delay having been waited for it.
C14_MissingPathFailsWithoutDelay ==
    \A i \in Entries :
        (MissingPathItem(i) /\ task[i].phase = "failed") =>
            /\ task[i].calls = 0
            /\ task[i].delays = 0

\* C14 (amended): a Path item whose path does not exist fails on the
\* existence check of every attempt: the local-file processor is never
\* invoked for it and it persists nothing, it never ends as a success, and
\* when it has failed after a >= 1 attempts it has waited a - 1 retry delays
\* (none only when a single attempt was made).
C14_MissingPathNeverProcessed ==
    \A i \in Entries :
        MissingPathItem(i) =>
            /\ task[i].calls = 0
            /\ task[i].phase \notin {"processing", "ok"}
            /\ i \notin stored /\ i \notin completedIds
            /\ (task[i].phase = "failed" /\ task[i].made > 0) =>
                  /\ task[i].lastError = AccessErrorMessage(impl)
                  /\ task[i].delays = task[i].made - 1

C14_Witness ==
    \E i \in Entries :
        /\ MissingPathItem(i)
        /\ task[i].phase = "failed"
        /\ task[i].made = 2
        /\ task[i].delays = 1
        /\ task[i].calls = 0

C15_Scenario ==
    /\ args.maxConcurrent = Num(2)
    /\ args.retryAttempts = Num(1)
    /\ Len(initial) = 3
    /\ ItemOf(1) = HttpUrl /\ ItemOf(2) = HttpUrl /\ ItemOf(3) = MissingPath

\* C15: with maxConcurrent = 2 and retryAttempts = 1, a queue of two Urls
\* followed by a missing path is run in two batches, the Urls first and the
\* path second (dispatched only when both Urls are terminal); when the Urls'
\* processing succeeds the summary has completed = 2 and failed = 1, the
\* path's failure reports attempts = 1, and the queue is empty.
C15_TwoBatches ==
    C15_Scenario =>
        /\ Dispatched(3) => (Terminal(task[1]) /\ Terminal(task[2]) /\ task[3].batchNo = 2)
        /\ (Dispatched(1) \/ Dispatched(2)) => (task[1].batchNo = 1 /\ task[2].batchNo = 1)
        /\ (Summary /\ task[1].procOk /\ task[2].procOk) =>
              /\ batchSizes = <<2, 1>>
              /\ task[3].phase = "failed" /\ task[3].made = 1 /\ task[3].delays = 0
              /\ result.completed = 2 /\ result.failed = 1
              /\ completedIds = {1, 2}
              /\ Len(result.errors) = 1
              /\ result.errors[1].id = 3
              /\ result.errors[1].item = MissingPath
              /\ result.errors[1].attempts = 1
              /\ queueFile = <<>>

C15_Witness ==
    /\ C15_Scenario
    /\ Summary
    /\ task[1].procOk /\ task[2].procOk
    /\ result.completed = 2 /\ result.failed = 1


\* C16: for a documented maxConcurrent k, every batch dispatched is the
\* first min(k, length) entries of the queue store as it is then, entries
\* are dispatched in queue order, and an entry of a later batch is dispatched
\* only when every entry before it in an earlier batch is terminal.
C16_FifoBatches ==
    /\ [](DocumentedMaxConcurrent =>
            \A i, j \in Entries :
                (i < j /\ Dispatched(j)) =>
                    /\ Dispatched(i)
                    /\ task[i].batchNo <= task[j].batchNo
                    /\ task[i].batchNo < task[j].batchNo => Terminal(task[i]))
    /\ [][(DocumentedMaxConcurrent /\ batchSizes' # batchSizes) =>
            /\ batch' = SubSeq(queueFile', 1, Min(ConfiguredMaxConcurrent, Len(queueFile')))
            /\ \A i \in Entries :
                  (Dispatched(i)' /\ ~Dispatched(i)) <=> i \in BatchIds(batch')]_vars

C16_Witness ==
    /\ args.maxConcurrent = Num(2)
    /\ Len(initial) = 3
    /\ Terminal(task[1]) /\ Terminal(task[2])
    /\ task[3].batchNo = 2 /\ InFlight(task[3])
    /\ queueFile = <<initial[3]>>

\* C17: while an item of a batch waits in its retry delay every other
\* in-flight item of the batch has its next step enabled, and no step of
\* another item touches the waiting item: only the end of its own delay
\* takes an item out of the delay.
C17_DelayDoesNotBlock ==
    /\ [](\A i, j \in Entries :
            (i # j /\ task[i].phase = "delay" /\ InFlight(task[j])) =>
                /\ task[j].batchNo = task[i].batchNo
                /\ ENABLED (AccessReturns(j) \/ ProcessorReturns(j) \/ DelayEnds(j)))
    /\ [][\A i \in Entries :
            (task[i].phase = "delay" /\ task'[i] # task[i]) =>
                (task'[i].delays = task[i].delays + 1
                 /\ \A j \in Entries \ {i} : task'[j] = task[j])]_vars

C17_Witness ==
    \E i, j \in Entries :
        /\ task[i].phase = "delay" /\ task[i].delays = 0
        /\ task[j].batchNo = task[i].batchNo
        /\ task[j].phase = "failed" /\ task[j].made = 2 /\ task[j].delays = 1

DispatchedIds == {i \in Entries : Dispatched(i)}

\* C18: no entry is both completed and failed, the failure list has at most
\* one entry per item and as many entries as failed counts, completed counts
\* the completed entries, and when the summary is returned every dispatched
\* entry is exactly one of completed or failed, so that completed + failed
\* is the number of entries dispatched.
C18_ExactlyOneOutcome ==
    /\ \A i \in Entries :
          /\ ~(i \in completedIds /\ ErrorsOf(i) # {})
          /\ Cardinality(ErrorsOf(i)) <= 1
          /\ (i \in completedIds \/ ErrorsOf(i) # {}) => (Dispatched(i) /\ Terminal(task[i]))
    /\ result.completed = Cardinality(completedIds)
    /\ result.failed = Len(result.errors)
    /\ Summary =>
          /\ result.completed + result.failed = Cardinality(DispatchedIds)
          /\ \A i \in DispatchedIds :
                /\ i \in completedIds \/ ErrorsOf(i) # {}
                /\ ErrorsOf(i) # {} <=> task[i].phase = "failed"

C18_Witness ==
    /\ Summary
    /\ Len(initial) = 3
    /\ result.completed = 1 /\ result.failed = 2
    /\ Cardinality(DispatchedIds) = 3


\* ------------------------------------------- list / clear / remove_from_queue
UpperPath == [scheme |-> "", name |-> "/DOCS/A.MD"]
BlankLine == [scheme |-> "", name |-> ""]
\* what a line of queue.txt can be
QueueLines == {HttpUrl, GoodPath, UpperPath, BlankLine}
\* what a caller can ask to remove
RemoveTargets == {HttpUrl, GoodPath, UpperPath}

Arr(s) == [kind |-> "array", val |-> s]
PathsArgs == {Undef} \cup {Arr(s) : s \in SeqsUpTo(RemoveTargets, 2)}

\* appendFile() onto a file whose last line has no '\n': the text of the
\* first appended line continues that line. A line made of several strings
\* keeps them apart in the field "then".
RECURSIVE Glue(_, _)
Glue(line, str) ==
    IF "then" \in DOMAIN line
    THEN [line EXCEPT !.then = Glue(line.then, str)]
    ELSE [scheme |-> line.scheme, name |-> line.name, then |-> str]

RECURSIVE toLowerCase(_)
toLowerCase(str) ==
    LET lower == [scheme |-> str.scheme,
                  name |-> IF str.name = "/DOCS/A.MD" THEN "/docs/a.md" ELSE str.name]
    IN IF "then" \in DOMAIN str
       THEN [scheme |-> lower.scheme, name |-> lower.name, then |-> toLowerCase(str.then)]
       ELSE lower
\* str.trim() !== ''
notBlank(str) == ~(str.scheme = "" /\ str.name = "")
\* content.split('\n').filter(item => item.trim() !== '')
NonBlankLines(file) == SelectSeq(file, LAMBDA l : notBlank(l.item))

\* new Set(items): the first occurrence of every string, in order
RECURSIVE SetOf(_)
SetOf(s) ==
    IF s = <<>> THEN <<>>
    ELSE LET front == SetOf(SubSeq(s, 1, Len(s) - 1))
             last == s[Len(s)]
         IN IF \E k \in 1 .. Len(front) : front[k].item = last.item
            THEN front
            ELSE Append(front, last)

Reply(text, count, results) ==
    [isError |-> FALSE, text |-> text, count |-> count, results |-> results]
ErrorReply(error) ==
    [isError |-> formatErrorResponse(error).isError, text |-> formatErrorResponse(error).text,
     count |-> 0, results |-> <<>>]
Outcome(reply, exists, file) == [response |-> reply, exists |-> exists, file |-> file]

\* ListQueueHandler.handle; fsOk: whether readFile succeeds
ListQueueHandle(exists, file, fsOk) ==
    IF ~exists
    THEN Outcome(Reply("Queue is empty (queue file does not exist)", 0, <<>>), exists, file)
    ELSE IF ~fsOk
    THEN Outcome(ErrorReply("EIO"), exists, file)
    ELSE LET urls == NonBlankLines(file)
         IN IF Len(urls) = 0
            THEN Outcome(Reply("Queue is empty", 0, <<>>), exists, file)
            ELSE Outcome(Reply("Queue contains", Len(urls), urls), exists, file)

\* mutant: every line of the file is counted, blank ones included
ClearQueueHandle_CountsLines(exists, file, fsOk) ==
    IF ~exists
    THEN Outcome(Reply("Queue is already empty (queue file does not exist)", 0, <<>>),
                 exists, file)
    ELSE IF ~fsOk
    THEN Outcome(ErrorReply("EIO"), exists, file)
    ELSE Outcome(Reply("Queue cleared successfully", Len(file), <<>>), TRUE, <<>>)
\* ClearQueueHandler.handle; fsOk: whether readFile and writeFile succeed
ClearQueueHandle(exists, file, fsOk) ==
    IF ~exists
    THEN Outcome(Reply("Queue is already empty (queue file does not exist)", 0, <<>>),
                 exists, file)
    ELSE IF ~fsOk
    THEN Outcome(ErrorReply("EIO"), exists, file)
    ELSE Outcome(Reply("Queue cleared successfully", Len(NonBlankLines(file)), <<>>),
                 TRUE, <<>>)

\* the loop over itemsToRemove: exact match first, then a case-insensitive
\* look-up that only suggests
RECURSIVE RemoveEach(_, _, _)
\* mutant: the case-insensitive match is removed as well
RemoveEach_AppliesSuggestion(toRemove, remaining, results) ==
    IF toRemove = <<>> THEN [remaining |-> remaining, results |-> results]
    ELSE LET p == Head(toRemove)
             rest == Tail(toRemove)
         IN IF \E k \in 1 .. Len(remaining) : remaining[k].item = p
            THEN RemoveEach(rest, SelectSeq(remaining, LAMBDA l : l.item # p),
                            Append(results, [path |-> p, status |-> "removed", suggestion |-> p]))
            ELSE IF \E k \in 1 .. Len(remaining) : toLowerCase(remaining[k].item) = toLowerCase(p)
            THEN RemoveEach(rest,
                            SelectSeq(remaining, LAMBDA l : toLowerCase(l.item) # toLowerCase(p)),
                            Append(results, [path |-> p, status |-> "removed", suggestion |-> p]))
            ELSE RemoveEach(rest, remaining,
                            Append(results, [path |-> p, status |-> "not_found", suggestion |-> p]))
RemoveEach(toRemove, remaining, results) ==
    IF toRemove = <<>> THEN [remaining |-> remaining, results |-> results]
    ELSE LET p == Head(toRemove)
             rest == Tail(toRemove)
         IN IF \E k \in 1 .. Len(remaining) : remaining[k].item = p
            THEN RemoveEach(rest, SelectSeq(remaining, LAMBDA l : l.item # p),
                            Append(results, [path |-> p, status |-> "removed", suggestion |-> p]))
            ELSE IF \E k \in 1 .. Len(remaining) : toLowerCase(remaining[k].item) = toLowerCase(p)
            THEN LET k == CHOOSE k \in 1 .. Len(remaining) :
                              /\ toLowerCase(remaining[k].item) = toLowerCase(p)
                              /\ \A h \in 1 .. k - 1 :
                                    toLowerCase(remaining[h].item) # toLowerCase(p)
                 IN RemoveEach(rest, remaining,
                               Append(results, [path |-> p, status |-> "case_mismatch",
                                                suggestion |-> remaining[k].item]))
            ELSE RemoveEach(rest, remaining,
                            Append(results, [path |-> p, status |-> "not_found", suggestion |-> p]))

\* RemoveFromQueueHandler.handle; fsOk: whether readFile and writeFile succeed
RemoveFromQueueHandle(paths, exists, file, fsOk) ==
    IF paths.kind # "array"
    THEN Outcome(ErrorReply("Invalid parameter type"), exists, file)
    ELSE IF Len(paths.val) = 0
    THEN Outcome(ErrorReply("At least one path must be provided"), exists, file)
    ELSE IF ~exists
    THEN Outcome(ErrorReply("Queue is empty (queue file does not exist)"), exists, file)
    ELSE IF ~fsOk
    THEN Outcome(ErrorReply("EIO"), exists, file)
    ELSE LET r == RemoveEach(paths.val, SetOf(NonBlankLines(file)), <<>>)
             removedCount == Len(SelectSeq(r.results, LAMBDA x : x.status = "removed"))
         IN Outcome(Reply("items remaining in queue", Len(r.remaining), r.results),
                    TRUE,
                    IF removedCount > 0 THEN r.remaining ELSE file)

\* the response is returned and the store is left as the handler left it;
\* the writes of these three tools are '' (clear_queue) and
\* join('\n') + '\n' (remove_from_queue): the file they leave ends its last line
Responds(tool, paths, fsOk, o) ==
    /\ call' = [tool |-> tool, paths |-> paths, existed |-> queueExists,
                before |-> queueFile, fsOk |-> fsOk, response |-> o.response]
    /\ queueExists' = o.exists
    /\ queueFile' = o.file
    /\ queueOpen' = IF o.file = queueFile THEN queueOpen ELSE FALSE

ListQueue ==
    /\ \E fsOk \in BOOLEAN :
          Responds("list_queue", Undef, fsOk, ListQueueHandle(queueExists, queueFile, fsOk))
    /\ UNCHANGED <<runVars, collection, restVars>>

ClearQueue ==
    /\ \E fsOk \in BOOLEAN :
          Responds("clear_queue", Undef, fsOk, ClearQueueHandle(queueExists, queueFile, fsOk))
    /\ UNCHANGED <<runVars, collection, restVars>>

RemoveFromQueue ==
    /\ \E paths \in PathsArgs, fsOk \in BOOLEAN :
          Responds("remove_from_queue", paths, fsOk,
                   RemoveFromQueueHandle(paths, queueExists, queueFile, fsOk))
    /\ UNCHANGED <<runVars, collection, restVars>>

\* what extract_urls finds on a page, or check_files under a path: strings
\* that are all different
NewItems == {s \in SeqsUpTo({HttpUrl, GoodPath}, 2) : \A j, k \in 1 .. Len(s) : s[j] = s[k] => j = k}

\* the number of strings a line is made of, and a file
RECURSIVE Strings(_)
Strings(line) == IF "then" \in DOMAIN line THEN 1 + Strings(line.then) ELSE 1
RECURSIVE StringsIn(_)
StringsIn(file) == IF file = <<>> THEN 0 ELSE Strings(Head(file).item) + StringsIn(Tail(file))

\* fs.appendFile(QUEUE_FILE, list.join('\n') + (list.length > 0 ? '\n' : ''))
appendFile(file, open, list) ==
    IF Len(list) = 0 THEN file
    ELSE IF open /\ Len(file) > 0
    THEN SubSeq(file, 1, Len(file) - 1)
         \o <<[id |-> file[Len(file)].id, item |-> Glue(file[Len(file)].item, Head(list))]>>
         \o [k \in 1 .. Len(list) - 1 |-> [id |-> 0, item |-> list[k + 1]]]
    ELSE file \o [k \in 1 .. Len(list) |-> [id |-> 0, item |-> list[k]]]

\* extract_urls and check_files with add_to_queue: the queue file is created
\* when it is absent, then the strings found are appended; fsOk: whether
\* appendFile succeeds
Enqueue ==
    /\ \E list \in NewItems, fsOk \in BOOLEAN :
          /\ StringsIn(queueFile) + Len(list) <= MaxQueue
          /\ call' = [tool |-> "enqueue", paths |-> Arr(list), existed |-> queueExists,
                      before |-> queueFile, fsOk |-> fsOk,
                      response |-> IF fsOk THEN Reply("Successfully added", Len(list), <<>>)
                                   ELSE ErrorReply("Failed to add")]
          /\ queueExists' = TRUE
          /\ queueFile' = IF fsOk THEN appendFile(queueFile, queueOpen, list) ELSE queueFile
          /\ queueOpen' = IF fsOk /\ Len(list) > 0 THEN FALSE ELSE queueOpen
    /\ UNCHANGED <<runVars, collection, restVars>>

\* one batch of a run_queue call, from the read of the queue file to the
\* rewrite that ends the batch, nothing else running meanwhile; a run is
\* these batches one after the other, and an interrupted run stops after one
\* of them
RunQueueBatch ==
    /\ queueExists
    /\ Len(NonBlankLines(queueFile)) > 0
    /\ \E i \in Impls, m \in MaxConcurrentArgs :
          LET maxConcurrent == maxConcurrentOf([maxConcurrent |-> m])
              lines == NonBlankLines(queueFile)
              remaining == IF i = "inline"
                           THEN SliceFrom(lines, Len(Slice(lines, 0, maxConcurrent)))
                           ELSE SliceFrom(lines, maxConcurrent)
          IN /\ call' = [tool |-> "run_queue", paths |-> Undef, existed |-> queueExists,
                         before |-> queueFile, fsOk |-> TRUE,
                         response |-> Reply(i, Len(lines) - Len(remaining), <<>>)]
             /\ queueFile' = remaining
             /\ queueExists' = (i = "inline" \/ Len(remaining) > 0)
             /\ queueOpen' = (i = "processItem" /\ Len(remaining) > 0)
    /\ UNCHANGED <<runVars, collection, restVars>>

\* the queue tools called one after the other on any queue store, while no
\* run_queue call is in progress
QueueInit ==
    /\ impl = "inline"
    /\ args = [maxConcurrent |-> Undef, retryAttempts |-> Undef, retryDelay |-> Undef]
    /\ \E s \in SeqsUpTo(QueueLines, MaxQueue) :
          /\ queueFile = QueueOf(s)
          /\ queueExists \in (IF s = <<>> THEN {TRUE, FALSE} ELSE {TRUE})
    /\ initial = <<>>
    /\ processingExists = FALSE
    /\ processingFile = <<>>
    /\ pc = "access"
    /\ items = <<>>
    /\ batch = <<>>
    /\ task = [i \in Ids |-> NewTask]
    /\ result = [completed |-> 0, failed |-> 0, errors |-> <<>>]
    /\ response = "none"
    /\ stored = {}
    /\ batchSizes = <<>>
    /\ completedIds = {}
    /\ ioFailed = FALSE
    /\ call = NoCall
    /\ collection = {}
    /\ queueOpen = FALSE
    /\ RestInit

QueueNext ==
    \/ ListQueue
    \/ ClearQueue
    \/ RemoveFromQueue
    \/ Enqueue
    \/ RunQueueBatch

QueueSpec == QueueInit /\ [][QueueNext]_vars

QueueToolHandle(tool, paths, exists, file, fsOk) ==
    IF tool = "list_queue" THEN ListQueueHandle(exists, file, fsOk)
    ELSE IF tool = "clear_queue" THEN ClearQueueHandle(exists, file, fsOk)
    ELSE RemoveFromQueueHandle(paths, exists, file, fsOk)

\* a call that is well-formed for its tool
WellFormedCall ==
    /\ call.tool \in {"list_queue", "clear_queue", "remove_from_queue"}
    /\ call.tool = "remove_from_queue" => (call.paths.kind = "array" /\ Len(call.paths.val) > 0)

\* C13: a well-formed list_queue, clear_queue or remove_from_queue call made
\* while the queue file is absent does not answer with an error, and answers
\* as the same call does on an existing empty queue file.
C13_AbsentQueueIsEmptyQueue ==
    (WellFormedCall /\ ~call.existed) =>
        LET onEmpty == QueueToolHandle(call.tool, call.paths, TRUE, <<>>, TRUE).response
        IN /\ ~call.response.isError
           /\ call.response.isError = onEmpty.isError
           /\ call.response.count = onEmpty.count
           /\ call.response.results = onEmpty.results


\* ------------------------------------------------------ remove_documentation
\* strings that are searched are sequences of characters
endsWith(s, p) == Len(s) >= Len(p) /\ SubSeq(s, Len(s) - Len(p) + 1, Len(s)) = p
occursAt(s, p, k) == k + Len(p) <= Len(s) /\ SubSeq(s, k + 1, k + Len(p)) = p
\* String.prototype.indexOf (0-based, -1 when absent)
indexOf(s, p) ==
    IF \E k \in 0 .. Len(s) : occursAt(s, p, k)
    THEN CHOOSE k \in 0 .. Len(s) : occursAt(s, p, k) /\ \A h \in 0 .. k - 1 : ~occursAt(s, p, h)
    ELSE 0 - 1
includes(s, p) == indexOf(s, p) >= 0
substring(s, from, to) == SubSeq(s, from + 1, to)
\* String.prototype.replace with a string pattern: the first occurrence only
replace(s, p, r) ==
    IF includes(s, p)
    THEN SubSeq(s, 1, indexOf(s, p)) \o r \o SubSeq(s, indexOf(s, p) + Len(p) + 1, Len(s))
    ELSE s
lowerChar(c) ==
    IF c = "X" THEN "x" ELSE IF c = "A" THEN "a"
    ELSE IF c = "M" THEN "m" ELSE IF c = "G" THEN "g" ELSE c
toLowerCaseStr(s) == [k \in 1 .. Len(s) |-> lowerChar(s[k])]
\* .replace(/\\/g, '/')
backslashesToSlashes(s) == [k \in 1 .. Len(s) |-> IF s[k] = "\\" THEN "/" ELSE s[k]]

\* s.split('/')
RECURSIVE split(_)
split(s) ==
    IF ~(\E k \in 1 .. Len(s) : s[k] = "/") THEN <<s>>
    ELSE LET k == CHOOSE k \in 1 .. Len(s) : s[k] = "/" /\ \A h \in 1 .. k - 1 : s[h] # "/"
         IN <<SubSeq(s, 1, k - 1)>> \o split(SubSeq(s, k + 1, Len(s)))
RECURSIVE join(_)
join(segs) ==
    IF segs = <<>> THEN <<>>
    ELSE IF Len(segs) = 1 THEN segs[1]
    ELSE segs[1] \o <<"/">> \o join(Tail(segs))

\* path.posix: the '.' and '..' segments and the empty segments resolved
RECURSIVE normalizeString(_, _, _)
normalizeString(segs, acc, allowAboveRoot) ==
    IF segs = <<>> THEN acc
    ELSE LET seg == Head(segs)
             rest == Tail(segs)
         IN IF seg = <<>> \/ seg = <<".">>
            THEN normalizeString(rest, acc, allowAboveRoot)
            ELSE IF seg = <<".", ".">>
            THEN IF acc # <<>> /\ acc[Len(acc)] # <<".", ".">>
                 THEN normalizeString(rest, SubSeq(acc, 1, Len(acc) - 1), allowAboveRoot)
                 ELSE IF allowAboveRoot
                 THEN normalizeString(rest, Append(acc, seg), allowAboveRoot)
                 ELSE normalizeString(rest, acc, allowAboveRoot)
            ELSE normalizeString(rest, Append(acc, seg), allowAboveRoot)

isAbsolute(p) == Len(p) > 0 /\ p[1] = "/"
\* path.normalize
normalize(p) ==
    IF Len(p) = 0 THEN <<".">>
    ELSE LET trailing == p[Len(p)] = "/"
             body == join(normalizeString(split(p), <<>>, ~isAbsolute(p)))
         IN IF Len(body) = 0
            THEN IF isAbsolute(p) THEN <<"/">>
                 ELSE IF trailing THEN <<".", "/">> ELSE <<".">>
            ELSE (IF isAbsolute(p) THEN <<"/">> ELSE <<>>) \o body
                 \o (IF trailing THEN <<"/">> ELSE <<>>)
\* path.basename
basename(p) ==
    LET segs == SelectSeq(split(p), LAMBDA seg : seg # <<>>)
    IN IF segs = <<>> THEN <<>> ELSE segs[Len(segs)]

normalizePathForComparison(p) == toLowerCaseStr(backslashesToSlashes(normalize(p)))


ScrollLimit == 100
FilePrefix == <<"f", "i", "l", "e", ":", "/", "/">>
fileUrl(p) == FilePrefix \o p

Seg_x == <<"x">>
Seg_file == <<"f", "i", "l", "e", ".", "m", "d">>
Seg_docs == <<"d", "o", "c", "s">>
Seg_guide == <<"g", "u", "i", "d", "e", ".", "m", "d">>
Seg_myguide == <<"m", "y">> \o Seg_guide

\* the stored documents
DocAX == join(<<<<"a">>, Seg_x, Seg_file>>)
DocBX == join(<<<<"b">>, Seg_x, Seg_file>>)
DocGuide == join(<<Seg_docs, Seg_guide>>)
DocMyGuide == join(<<Seg_docs, Seg_myguide>>)
DocOtherGuide == join(<<<<"b">>, Seg_guide>>)
DocAbs == <<"/">> \o join(<<<<"r">>, Seg_file>>)
\* a document stored as more chunks than one scroll page holds
Seg_long == <<"l", "o", "n", "g", ".", "m", "d">>
DocLong == join(<<Seg_docs, Seg_long>>)
DocUpperMyGuide == join(<<<<"b">>, <<"M", "y", "G">> \o SubSeq(Seg_guide, 2, Len(Seg_guide))>>)
WebUrl == <<"h", "t", "t", "p", ":", "/", "/", "x">>

\* the points a collection can hold, by id: one per chunk, with the url of
\* its document in the payload
payloadUrl ==
    <<fileUrl(DocAX), fileUrl(DocBX), fileUrl(DocGuide), fileUrl(DocGuide),
      fileUrl(DocMyGuide), fileUrl(DocOtherGuide), fileUrl(DocAbs), WebUrl,
      fileUrl(DocUpperMyGuide)>>
        \o [k \in 1 .. ScrollLimit + 1 |-> fileUrl(DocLong)]
Points == DOMAIN payloadUrl
ChunkPoints == {record \in Points : payloadUrl[record] = fileUrl(DocLong)}
BasePoints == Points \ ChunkPoints

\* what a caller can name in paths
Target_none == <<"n", "o", "n", "e">>
\* absolute targets that a stored path ends with, contains, or lies beneath
Target_absTail == <<"/">> \o join(<<Seg_x, Seg_file>>)
Target_absDir == <<"/">> \o Seg_x
Target_absParent == <<"/", "r">>
DocTargets ==
    {Seg_x, <<"X">>, <<".", "/", "x">>, Seg_guide, Seg_myguide, Seg_long, DocGuide, DocAbs,
     Target_none, Target_absTail, Target_absDir, Target_absParent}
DocPathsArgs ==
    {Undef, Arr(<<>>)} \cup {Arr(<<t>>) : t \in DocTargets}
        \cup {Arr(<<Seg_x, Seg_guide>>), Arr(<<Seg_guide, Target_none>>)}
DocUrlsArgs == {Undef, Arr(<<WebUrl>>)}
\* how the vector store answers: the scroll throws, or the delete reports
\* one of its statuses
QdrantOutcomes == {"scrollThrows", "completed", "acknowledged", "failed"}

\* the points of a set, in id order
inIdOrder(ps) ==
    [i \in 1 .. Cardinality(ps) |->
        CHOOSE p \in ps : Cardinality({q \in ps : q < p}) = i - 1]
\* qdrantClient.scroll: one page of the matching points
scroll(matching, limit) ==
    LET all == inIdOrder(matching)
    IN SubSeq(all, 1, Min(limit, Len(all)))

\* mutant: the separator before the input is not required
isExactFileMatch_NoSeparator(storedPath, normalizedInput) == endsWith(storedPath, normalizedInput)
isExactFileMatch(storedPath, normalizedInput) == endsWith(storedPath, <<"/">> \o normalizedInput)
isDirMatch(storedPath, normalizedInput) ==
    includes(storedPath, <<"/">> \o normalizedInput \o <<"/">>)
isFullMatch(storedPath, normalizedInput) == storedPath = normalizedInput

\* the normalized stored path of every point and the normalized form of every
\* input, computed once
storedPaths == [record \in Points |-> normalizePathForComparison(replace(payloadUrl[record], FilePrefix, <<>>))]
storedPathOf(record) == storedPaths[record]
normalizedInputs == [p \in DocTargets |-> normalizePathForComparison(p)]
normalizedInputOf(p) == normalizedInputs[p]
\* mutant: an absolute input matches every stored path that ends with it
pathMatches_AbsoluteSuffix(storedPath, p) ==
    IF isAbsolute(p)
    THEN endsWith(storedPath, normalizedInputOf(p))
    ELSE LET normalizedInput == normalizedInputOf(p)
         IN \/ isExactFileMatch(storedPath, normalizedInput)
            \/ isDirMatch(storedPath, normalizedInput)
            \/ isFullMatch(storedPath, normalizedInput)
\* the test of one stored path against one input path
pathMatches(storedPath, p) ==
    IF isAbsolute(p)
    THEN storedPath = normalizedInputOf(p)
    ELSE LET normalizedInput == normalizedInputOf(p)
         IN \/ isExactFileMatch(storedPath, normalizedInput)
            \/ isDirMatch(storedPath, normalizedInput)
            \/ isFullMatch(storedPath, normalizedInput)
\* which points every input matches, computed once
recordMatches == [record \in Points, p \in DocTargets |-> pathMatches(storedPathOf(record), p)]

filteredResults(searchResults, paths) ==
    SelectSeq(searchResults,
              LAMBDA record : \E k \in 1 .. Len(paths) : recordMatches[record, paths[k]])

\* dirMatches: for every relative input matching as a directory, the parent
\* locations it was found under
\* the parent location a stored path shows an input directory under, if any,
\* computed once
parentPaths ==
    [record \in Points, p \in DocTargets |->
        LET needle == <<"/">> \o normalizedInputOf(p) \o <<"/">>
        IN IF includes(storedPathOf(record), needle)
           THEN {substring(storedPathOf(record), 0, indexOf(storedPathOf(record), needle))}
           ELSE {}]
dirLocations(filtered, p) == UNION {parentPaths[filtered[k], p] : k \in 1 .. Len(filtered)}
\* mutant: a directory found in two locations is not reported
ambiguousDirs_NeedsThree(filtered, paths) ==
    {[dirName |-> normalizedInputOf(paths[k]),
      locations |-> {loc \o <<"/">> \o normalizedInputOf(paths[k]) :
                        loc \in dirLocations(filtered, paths[k])}] :
        k \in {h \in 1 .. Len(paths) :
                  ~isAbsolute(paths[h]) /\ Cardinality(dirLocations(filtered, paths[h])) > 2}}
ambiguousDirs(filtered, paths) ==
    {[dirName |-> normalizedInputOf(paths[k]),
      locations |-> {loc \o <<"/">> \o normalizedInputOf(paths[k]) :
                        loc \in dirLocations(filtered, paths[k])}] :
        k \in {h \in 1 .. Len(paths) :
                  ~isAbsolute(paths[h]) /\ Cardinality(dirLocations(filtered, paths[h])) > 1}}

\* uniqueFiles: the distinct file paths of the matched points
filePaths == [record \in Points |-> replace(payloadUrl[record], FilePrefix, <<>>)]
uniqueFiles(filtered) == {filePaths[filtered[k]] : k \in 1 .. Len(filtered)}
fileNames == [f \in {filePaths[record] : record \in Points} |-> basename(f)]
\* mutant: files sharing a name are not looked for
duplicates_None(filtered) == {}
\* duplicates: the file names carried by more than one matched file
duplicates(filtered) ==
    {[fileName |-> fileNames[f],
      paths |-> {g \in uniqueFiles(filtered) : fileNames[g] = fileNames[f]}] :
        f \in {f \in uniqueFiles(filtered) :
                  \E g \in uniqueFiles(filtered) : g # f /\ fileNames[g] = fileNames[f]}}

DocReply(text, removed, locations) ==
    [isError |-> FALSE, text |-> text, removed |-> removed, locations |-> locations]
DocErrorReply(error, locations) ==
    [isError |-> formatErrorResponse(error).isError, text |-> formatErrorResponse(error).text,
     removed |-> {}, locations |-> locations]
\* what a call leaves behind: its response, the collection, and the requests
\* it sent to the vector store, in order
Removal(reply, coll, sent) == [response |-> reply, collection |-> coll, sent |-> sent]

argArray(a) == IF a.kind = "array" THEN a.val ELSE <<>>
elements(s) == {s[k] : k \in 1 .. Len(s)}


\* match: { text: 'file://' } on the url of every point
isFileUrl == [record \in Points |-> includes(payloadUrl[record], FilePrefix)]

\* RemoveDocumentationHandler.handle
RemoveDocumentationHandle(urlsArg, pathsArg, coll, qdrant) ==
    LET urls == argArray(urlsArg)
        paths == argArray(pathsArg)
    IN IF Len(urls) = 0 /\ Len(paths) = 0
       THEN Removal(DocErrorReply("Either urls or paths must be provided as a non-empty array", {}),
                    coll, <<>>)
       ELSE IF qdrant = "scrollThrows"
       THEN Removal(DocErrorReply("scroll failed", {}), coll, <<"scroll">>)
       ELSE IF Len(paths) > 0
       THEN LET searchResults == scroll({p \in coll : isFileUrl[p]}, ScrollLimit)
                filtered == filteredResults(searchResults, paths)
                ids == {filtered[k] : k \in 1 .. Len(filtered)}
                doomed == {p \in coll : payloadUrl[p] \in elements(urls) \/ p \in ids}
            IN IF Len(filtered) = 0
               THEN Removal(DocErrorReply("No documents found matching the specified path(s)", {}),
                            coll, <<"scroll", "scroll">>)
               ELSE IF ambiguousDirs(filtered, paths) # {}
               THEN Removal(DocErrorReply("Multiple directories found with the same name",
                                          UNION {d.locations : d \in ambiguousDirs(filtered, paths)}),
                            coll, <<"scroll">>)
               ELSE IF duplicates(filtered) # {}
               THEN Removal(DocErrorReply("Multiple files found with the same name",
                                          UNION {d.paths : d \in duplicates(filtered)}),
                            coll, <<"scroll">>)
               ELSE IF qdrant \notin {"acknowledged", "completed"}
               THEN Removal(DocErrorReply("Delete operation failed", {}), coll,
                            <<"scroll", "delete">>)
               ELSE Removal(DocReply("Successfully removed", uniqueFiles(filtered), {}),
                            coll \ doomed, <<"scroll", "delete">>)
       ELSE LET urlSearchResults == scroll({p \in coll : payloadUrl[p] \in elements(urls)},
                                            ScrollLimit)
                doomed == {p \in coll : payloadUrl[p] \in elements(urls)}
            IN IF Len(urlSearchResults) = 0
               THEN Removal(DocErrorReply("No documents found matching the specified URL(s)", {}),
                            coll, <<"scroll">>)
               ELSE IF qdrant \notin {"acknowledged", "completed"}
               THEN Removal(DocErrorReply("Delete operation failed", {}), coll,
                            <<"scroll", "delete">>)
               ELSE Removal(DocReply("Successfully removed", elements(urls), {}), coll \ doomed,
                            <<"scroll", "delete">>)

\* one remove_documentation call, from request to response
RemoveDocumentation ==
    /\ call = NoCall
    /\ \E urls \in DocUrlsArgs, paths \in DocPathsArgs, qdrant \in QdrantOutcomes :
          LET o == RemoveDocumentationHandle(urls, paths, collection, qdrant)
          IN /\ call' = [tool |-> "remove_documentation", urls |-> urls, paths |-> paths,
                         before |-> collection, qdrant |-> qdrant, response |-> o.response,
                         sent |-> o.sent]
             /\ collection' = o.collection
    /\ UNCHANGED <<runVars, queueVars, queueOpen, restVars>>

\* remove_documentation called on any collection, while no run_queue call
\* is in progress
RemoveInit ==
    /\ impl = "inline"
    /\ args = [maxConcurrent |-> Undef, retryAttempts |-> Undef, retryDelay |-> Undef]
    /\ queueFile = <<>>
    /\ queueExists = FALSE
    /\ initial = <<>>
    /\ processingExists = FALSE
    /\ processingFile = <<>>
    /\ pc = "access"
    /\ items = <<>>
    /\ batch = <<>>
    /\ task = [i \in Ids |-> NewTask]
    /\ result = [completed |-> 0, failed |-> 0, errors |-> <<>>]
    /\ response = "none"
    /\ stored = {}
    /\ batchSizes = <<>>
    /\ completedIds = {}
    /\ ioFailed = FALSE
    /\ call = NoCall
    /\ collection \in (SUBSET BasePoints) \cup {ChunkPoints, ChunkPoints \cup {3}}
    /\ queueOpen = FALSE
    /\ RestInit

RemoveNext ==
    \/ RemoveDocumentation

RemoveSpec == RemoveInit /\ [][RemoveNext]_vars

RemovalCall == call.tool = "remove_documentation"
PointsOf(coll, doc) == {p \in coll : payloadUrl[p] = fileUrl(doc)}
Deleted == call.before \ collection

\* C19: when documents a/x/file.md and b/x/file.md are stored and the store
\* answers the scroll, a removal request whose paths are just x is answered
\* with the ambiguity error naming both a/x and b/x, and no point is deleted.
C19_AmbiguousDirectoryRejected ==
    (/\ RemovalCall
     /\ call.paths = Arr(<<Seg_x>>)
     /\ PointsOf(call.before, DocAX) # {} /\ PointsOf(call.before, DocBX) # {}
     /\ call.qdrant # "scrollThrows") =>
        /\ call.response.isError
        /\ call.response.text = "Multiple directories found with the same name"
        /\ {join(<<<<"a">>, Seg_x>>), join(<<<<"b">>, Seg_x>>)} \subseteq call.response.locations
        /\ collection = call.before

C19_Witness ==
    /\ RemovalCall
    /\ call.paths = Arr(<<Seg_x>>)
    /\ call.urls = Arr(<<WebUrl>>)
    /\ call.qdrant = "completed"
    /\ call.before = BasePoints
    /\ call.response.isError
    /\ collection = BasePoints

\* C20: when docs/guide.md is the one stored document named guide.md and the
\* store completes the delete, a removal request whose paths are just
\* guide.md (and no urls) succeeds and deletes exactly the points of
\* docs/guide.md: docs/myguide.md and every other document keep their points.
C20_ExactFileMatch ==
    (/\ RemovalCall
     /\ call.paths = Arr(<<Seg_guide>>)
     /\ call.urls = Undef
     /\ PointsOf(call.before, DocGuide) # {}
     /\ PointsOf(call.before, DocOtherGuide) = {}
     /\ call.qdrant \in {"acknowledged", "completed"}) =>
        /\ ~call.response.isError
        /\ Deleted = PointsOf(call.before, DocGuide)
        /\ call.response.removed = {DocGuide}
        /\ PointsOf(collection, DocMyGuide) = PointsOf(call.before, DocMyGuide)

C20_Witness ==
    /\ RemovalCall
    /\ call.paths = Arr(<<Seg_guide>>)
    /\ call.urls = Undef
    /\ PointsOf(call.before, DocMyGuide) # {}
    /\ Cardinality(PointsOf(call.before, DocGuide)) = 2
    /\ Cardinality(Deleted) = 2
    /\ PointsOf(collection, DocMyGuide) # {}


\* the stored file points a request's paths match, the parent locations one
\* of its paths is found under as a directory, and the stored path of a file
CallPaths == argArray(call.paths)
CallUrls == argArray(call.urls)
ScrollAnswered == call.qdrant # "scrollThrows"
MatchedBy(p) == {r \in call.before : isFileUrl[r] /\ recordMatches[r, p]}
Matched == UNION {MatchedBy(CallPaths[k]) : k \in 1 .. Len(CallPaths)}
UrlMatched == {r \in call.before : payloadUrl[r] \in elements(CallUrls)}
LocationsOf(p) == UNION {parentPaths[r, p] : r \in Matched}
\* the request's own refusals, as opposed to a failure of the vector store
Rejections ==
    {"Either urls or paths must be provided as a non-empty array",
     "No documents found matching the specified path(s)",
     "No documents found matching the specified URL(s)",
     "Multiple directories found with the same name",
     "Multiple files found with the same name"}
Rejected == call.response.isError /\ call.response.text \in Rejections
DeleteSent == "delete" \in elements(call.sent)
\* the three checks of a request with paths, stated on the stored points
ChecksPassed ==
    IF Len(CallPaths) > 0
    THEN /\ Matched # {}
         /\ \A k \in 1 .. Len(CallPaths) :
               ~isAbsolute(CallPaths[k]) => Cardinality(LocationsOf(CallPaths[k])) <= 1
         /\ \A r, q \in Matched :
               fileNames[filePaths[r]] = fileNames[filePaths[q]] => filePaths[r] = filePaths[q]
    ELSE UrlMatched # {}

\* C21: a remove_documentation call sends its delete to the store only as
\* its last request, after the scroll that collects the candidates and only
\* when the zero-match, directory-ambiguity and duplicate-name checks pass; a
\* call that ends in one of the handler's rejections has sent no delete and
\* leaves the collection as it was; the collection changes only in a call
\* that sent the delete and reports success.
C21_DeleteOnlyAfterChecks ==
    RemovalCall =>
        /\ DeleteSent => (call.sent = <<"scroll", "delete">> /\ ChecksPassed)
        /\ Rejected => (~DeleteSent /\ collection = call.before)
        /\ collection # call.before => (DeleteSent /\ ~call.response.isError)
        /\ ~call.response.isError => DeleteSent

C21_Witness ==
    /\ RemovalCall
    /\ call.response.text = "Multiple files found with the same name"
    /\ call.sent = <<"scroll">>
    /\ Cardinality(Matched) = 3
    /\ collection = call.before

\* C22: a call with paths, one of which matches no stored document, is
\* answered with the not-found error and deletes nothing, also when other
\* paths of the request do match.
C22_UnmatchedTargetRejected ==
    (/\ RemovalCall
     /\ ScrollAnswered
     /\ \E k \in 1 .. Len(CallPaths) : MatchedBy(CallPaths[k]) = {}) =>
        /\ call.response.isError
        /\ collection = call.before

FileMatchedBy(p) ==
    {r \in call.before : isFileUrl[r] /\ endsWith(storedPaths[r], <<"/">> \o normalizedInputs[p])}

\* C23: a call whose one relative path matches, as a file name, stored
\* documents at more than one normalized full path is answered with an error
\* listing those documents' paths, and deletes nothing.
C23_DuplicateNameRejected ==
    (/\ RemovalCall
     /\ ScrollAnswered
     /\ Len(CallPaths) = 1
     /\ ~isAbsolute(CallPaths[1])
     /\ Cardinality({storedPaths[r] : r \in FileMatchedBy(CallPaths[1])}) > 1) =>
        /\ call.response.isError
        /\ {filePaths[r] : r \in FileMatchedBy(CallPaths[1])} \subseteq call.response.locations
        /\ collection = call.before

ExactlyAt(p) == {r \in call.before : isFileUrl[r] /\ storedPaths[r] = normalizePathForComparison(p)}

\* C24: a call whose one path is absolute (and that names no urls) deletes
\* nothing but the points stored at exactly the normalized target: when the
\* store completes the delete it deletes all of them, and when there is none
\* the call is answered with the not-found error, whatever stored paths end
\* with, contain or lie beneath the target.
C24_AbsoluteIsExact ==
    (/\ RemovalCall
     /\ ScrollAnswered
     /\ call.urls = Undef
     /\ Len(CallPaths) = 1
     /\ isAbsolute(CallPaths[1])) =>
        /\ Deleted \subseteq ExactlyAt(CallPaths[1])
        /\ ~call.response.isError => Deleted = ExactlyAt(CallPaths[1])
        /\ ExactlyAt(CallPaths[1]) = {} =>
              call.response.text = "No documents found matching the specified path(s)"
        /\ (ExactlyAt(CallPaths[1]) # {} /\ call.qdrant \in {"acknowledged", "completed"}) =>
              ~call.response.isError

C24_Witness ==
    /\ RemovalCall
    /\ call.paths = Arr(<<DocAbs>>)
    /\ call.urls = Undef
    /\ PointsOf(call.before, DocAX) # {}
    /\ Deleted = PointsOf(call.before, DocAbs)
    /\ Deleted # {}
    /\ PointsOf(collection, DocAX) # {}


\* the strings a full read of the queue file yields, in order
ReadAll(file) == [k \in 1 .. Len(NonBlankLines(file)) |-> NonBlankLines(file)[k].item]
Enqueued == call.tool = "enqueue" /\ ~call.response.isError

\* C25: enqueueing items onto a queue whose entries are Q leaves a queue
\* whose full read is Q followed by the new items in order, the store being
\* created if it was absent, whatever enqueue, remove_from_queue, clear_queue
\* and run_queue operations came before; no entry is altered or merged.
C25_EnqueueAppends ==
    Enqueued =>
        /\ queueExists
        /\ ReadAll(queueFile) = ReadAll(call.before) \o call.paths.val


RemoveCall == call.tool = "remove_from_queue" /\ ~call.response.isError
Asked == call.paths.val
Has(seq, x) == \E k \in 1 .. Len(seq) : seq[k] = x

ClearCall == call.tool = "clear_queue" /\ ~call.response.isError

\* C27: clear_queue leaves the queue with no entries and reports as its
\* count the number of non-blank entries the queue held just before the call.
C27_ClearEmptiesAndCounts ==
    ClearCall =>
        /\ ReadAll(queueFile) = <<>>
        /\ call.response.count = Len(ReadAll(call.before))

C27_Witness ==
    /\ ClearCall
    /\ Len(call.before) = 3
    /\ Len(ReadAll(call.before)) = 2
    /\ call.response.count = 2
    /\ queueExists /\ queueFile = <<>>



\* --------------------------------------------------- QueueProgressTracker
MaxClock == 1
MaxHeld == 1
TotalItemsArgs == 0 .. MaxQueue - 1
TrackedItems == {HttpUrl, GoodPath}
ItemArrays == {<<GoodPath>>, <<HttpUrl, GoodPath>>}

\* a number kept as the fraction the code computes
Ratio(num, den) == [kind |-> "number", num |-> num, den |-> den]

\* the contents of a QueueProgress object, its arrays read
Deep(obj, arrays) ==
    [obj EXCEPT !.processing = arrays[obj.processing], !.errors = arrays[obj.errors]]
ValueOf(t, h) == Deep(IF h.alias THEN t.progress ELSE h.obj, t.arrays)
Hold(t, alias, obj) ==
    IF Len(t.held) < MaxHeld
    THEN [t EXCEPT !.held = Append(@, [alias |-> alias, obj |-> obj, was |-> Deep(obj, t.arrays)])]
    ELSE t
\* what the holders see is taken as seen again
Seen(t) == [t EXCEPT !.held = [k \in 1 .. Len(t.held) |->
                                  [t.held[k] EXCEPT !.was = ValueOf(t, t.held[k])]]]

updateEstimatedTime(t) ==
    LET elapsed == t.now - t.progress.startTime
        itemsProcessed == t.progress.completed + t.progress.failed
        remainingItems == t.progress.totalItems - itemsProcessed
    IN IF itemsProcessed = 0 THEN t
       ELSE [t EXCEPT !.progress.estimatedTimeRemaining =
                          Ratio(elapsed * remainingItems, itemsProcessed)]

notifyUpdate(t) ==
    LET u == updateEstimatedTime(t)
    IN IF u.hasCallback THEN Hold(u, TRUE, u.progress) ELSE u

\* this.progress.processing.filter(i => i !== item): a new array
filterOut(t, item) ==
    [t EXCEPT !.arrays = Append(@, SelectSeq(t.arrays[t.progress.processing],
                                             LAMBDA i : i # item)),
              !.progress.processing = Len(t.arrays) + 1]

\* the array passed in is the one kept
startProcessing(t, list) ==
    notifyUpdate([t EXCEPT !.arrays = Append(@, list),
                           !.progress.processing = Len(t.arrays) + 1,
                           !.op = "startProcessing",
                           !.calls = Append(@, [op |-> "startProcessing", item |-> list])])
completeItem(t, item) ==
    LET f == filterOut(t, item)
    IN notifyUpdate([f EXCEPT !.progress.completed = @ + 1, !.op = "completeItem",
                              !.calls = Append(@, [op |-> "completeItem", item |-> item])])
\* mutant: the failure is counted and not listed
failItem_CountsOnly(t, item, error, attempts) ==
    LET f == filterOut(t, item)
    IN notifyUpdate([f EXCEPT !.progress.failed = @ + 1,
                              !.op = "failItem",
                              !.calls = Append(@, [op |-> "failItem", item |-> item])])
failItem(t, item, error, attempts) ==
    LET f == filterOut(t, item)
    IN notifyUpdate([f EXCEPT !.progress.failed = @ + 1,
                              !.arrays[f.progress.errors] =
                                  Append(@, [item |-> item, error |-> error, attempts |-> attempts]),
                              !.op = "failItem",
                              !.calls = Append(@, [op |-> "failItem", item |-> item])])
\* { ...this.progress }: a new object with the same fields
getProgress(t) ==
    LET u == Seen(updateEstimatedTime([t EXCEPT !.op = "getProgress"]))
    IN Hold(u, FALSE, u.progress)

\* a holder of a QueueProgress value pushes onto its errors list, or
\* assigns its completed field
mutate(t, k, how) ==
    LET h == t.held[k]
        obj == IF h.alias THEN t.progress ELSE h.obj
        m == [t EXCEPT !.op = "mutate", !.clean = FALSE,
                       !.before = Deep(t.progress, t.arrays)]
    IN IF how = "push"
       THEN Seen([m EXCEPT !.arrays[obj.errors] =
                               Append(@, [item |-> GoodPath, error |-> "client", attempts |-> 0])])
       ELSE IF h.alias
       THEN Seen([m EXCEPT !.progress.completed = 0])
       ELSE Seen([m EXCEPT !.held[k].obj.completed = 0])


\* the calls made on one tracker, one after the other, while time passes;
\* at most MaxQueue items are reported done, which can be more than
\* totalItems says
Tick ==
    /\ tracker.clean /\ tracker.now < MaxClock
    /\ tracker' = [tracker EXCEPT !.now = @ + 1]
    /\ UNCHANGED <<runVars, queueVars, call, collection, queueOpen, listing>>

Done(t) == Len(t.arrays) - 2
StartProcessing ==
    /\ tracker.clean /\ Done(tracker) < MaxQueue
    /\ \E list \in ItemArrays : tracker' = startProcessing(tracker, list)
    /\ UNCHANGED <<runVars, queueVars, call, collection, queueOpen, listing>>

CompleteItem ==
    /\ tracker.clean /\ Done(tracker) < MaxQueue
    /\ \E item \in TrackedItems : tracker' = completeItem(tracker, item)
    /\ UNCHANGED <<runVars, queueVars, call, collection, queueOpen, listing>>

FailItem ==
    /\ tracker.clean /\ Done(tracker) < MaxQueue
    /\ \E item \in TrackedItems : tracker' = failItem(tracker, item, "EIO", 1)
    /\ UNCHANGED <<runVars, queueVars, call, collection, queueOpen, listing>>

GetProgress ==
    /\ tracker.clean /\ Len(tracker.held) < MaxHeld
    /\ tracker' = getProgress(tracker)
    /\ UNCHANGED <<runVars, queueVars, call, collection, queueOpen, listing>>

MutateObtained ==
    /\ tracker.clean
    /\ \E k \in 1 .. Len(tracker.held), how \in {"push", "assign"} :
          tracker' = mutate(tracker, k, how)
    /\ UNCHANGED <<runVars, queueVars, call, collection, queueOpen, listing>>


TrackerInit ==
    /\ impl = "inline"
    /\ args = [maxConcurrent |-> Undef, retryAttempts |-> Undef, retryDelay |-> Undef]
    /\ queueFile = <<>>
    /\ queueExists = FALSE
    /\ initial = <<>>
    /\ processingExists = FALSE
    /\ processingFile = <<>>
    /\ pc = "access"
    /\ items = <<>>
    /\ batch = <<>>
    /\ task = [i \in Ids |-> NewTask]
    /\ result = [completed |-> 0, failed |-> 0, errors |-> <<>>]
    /\ response = "none"
    /\ stored = {}
    /\ batchSizes = <<>>
    /\ completedIds = {}
    /\ ioFailed = FALSE
    /\ call = NoCall
    /\ collection = {}
    /\ queueOpen = FALSE
    /\ \E totalItems \in TotalItemsArgs, hasCallback \in BOOLEAN :
          tracker = Construct(totalItems, hasCallback, 0)
    /\ listing = NoListing

TrackerNext ==
    \/ Tick
    \/ StartProcessing
    \/ CompleteItem
    \/ FailItem
    \/ GetProgress
    \/ MutateObtained

TrackerSpec == TrackerInit /\ [][TrackerNext]_vars


ItemsDone == tracker.progress.completed + tracker.progress.failed
Estimate == tracker.progress.estimatedTimeRemaining

\* C28: estimatedTimeRemaining is unset in every state where completed +
\* failed = 0, and after any sequence of startProcessing, completeItem and
\* failItem calls in which completed + failed > 0 it is a number that is
\* not negative.
C28_EstimateUnsetThenNonNegative ==
    tracker.clean =>
        /\ ItemsDone = 0 => Estimate = Undef
        /\ (ItemsDone > 0 /\ tracker.op \in {"startProcessing", "completeItem", "failItem"})
              => /\ Estimate.kind = "number"
                 /\ Estimate.den > 0
                 /\ Estimate.num >= 0

\* C29: every QueueProgress value that leaves the tracker, returned by
\* getProgress or handed to the observer, is a copy of its own: no later
\* startProcessing, completeItem or failItem call changes any of its fields,
\* its errors and processing lists included, and a change a holder makes to
\* it leaves the tracker's state as it was.
C29_SnapshotsAreCopies ==
    /\ \A k \in 1 .. Len(tracker.held) :
          ValueOf(tracker, tracker.held[k]) = tracker.held[k].was
    /\ tracker.op = "mutate" => Deep(tracker.progress, tracker.arrays) = tracker.before



\* ------------------------------------------------- list_sources: the tree
MaxSources == 3
\* the local records read from storage: pathSegments may be missing, and
\* isFolder is read as !!source.isFolder
Source(segments, isFolder) ==
    [hasSegments |-> TRUE, pathSegments |-> segments, isFolder |-> isFolder]
Rec_abc == Source(<<"a", "b", "c.md">>, FALSE)
Rec_ad == Source(<<"a", "d.md">>, FALSE)
Rec_aFolder == Source(<<"a">>, TRUE)
Rec_aFile == Source(<<"a">>, FALSE)
Rec_abFolder == Source(<<"a", "b">>, TRUE)
Rec_aed == Source(<<"a", "e", "d.md">>, FALSE)
Rec_bare == [hasSegments |-> FALSE, pathSegments |-> <<>>, isFolder |-> FALSE]
LocalSources == {Rec_abc, Rec_ad, Rec_aed, Rec_aFolder, Rec_aFile, Rec_abFolder, Rec_bare}

\* localSources.sort by pathSegments.join('/'), a missing pathSegments read
\* as '': for the names used here that is the order segment by segment,
\* and a path comes before the paths it starts
segmentRank == ("a" :> 1) @@ ("b" :> 2) @@ ("c.md" :> 3) @@ ("d.md" :> 4) @@ ("e" :> 5)
RECURSIVE notAfter(_, _)
notAfter(s, t) ==
    IF s = <<>> THEN TRUE
    ELSE IF t = <<>> THEN FALSE
    ELSE IF Head(s) # Head(t) THEN segmentRank[Head(s)] < segmentRank[Head(t)]
    ELSE notAfter(Tail(s), Tail(t))

RECURSIVE insertSegments(_, _, _)
\* mutant: every node made for a record takes the record's isFolder
insertSegments_RecordFlag(nodes, source, i) ==
    LET segments == source.pathSegments
        path == SubSeq(segments, 1, i)
        parent == SubSeq(segments, 1, i - 1)
        made == IF path \in DOMAIN nodes THEN nodes
                ELSE (path :> [name |-> segments[i], isFolder |-> source.isFolder, keys |-> <<>>])
                     @@ [nodes EXCEPT ![parent].keys = Append(@, segments[i])]
    IN IF i > Len(segments) THEN nodes
       ELSE insertSegments(made, source, i + 1)
\* the loop over source.pathSegments, from segment i on (1-based)
insertSegments(nodes, source, i) ==
    LET segments == source.pathSegments
        path == SubSeq(segments, 1, i)
        parent == SubSeq(segments, 1, i - 1)
        isLast == i = Len(segments)
        made == IF path \in DOMAIN nodes THEN nodes
                ELSE (path :> [name |-> segments[i],
                               isFolder |-> IF isLast THEN source.isFolder ELSE TRUE,
                               keys |-> <<>>])
                     @@ [nodes EXCEPT ![parent].keys = Append(@, segments[i])]
    IN IF i > Len(segments) THEN nodes
       ELSE insertSegments(made, source, i + 1)

\* the comparator of renderTree's sort: folders before files, then by name
sortsBefore(nodes, p, x, y) ==
    LET isAFolder == nodes[Append(p, x)].isFolder
        isBFolder == nodes[Append(p, y)].isFolder
    IN IF isAFolder # isBFolder THEN isAFolder ELSE segmentRank[x] < segmentRank[y]
RECURSIVE sorted(_, _, _)
sorted(nodes, p, names) ==
    IF names = {} THEN <<>>
    ELSE LET first == CHOOSE x \in names : \A y \in names \ {x} : sortsBefore(nodes, p, x, y)
         IN <<first>> \o sorted(nodes, p, names \ {first})
entries(nodes, p) == sorted(nodes, p, {nodes[p].keys[k] : k \in 1 .. Len(nodes[p].keys)})

childPaths(nodes, p) == {Append(p, nodes[p].keys[k]) : k \in 1 .. Len(nodes[p].keys)}
hasOnlyFolderChildren(nodes, p) ==
    nodes[p].isFolder /\ \A c \in childPaths(nodes, p) : nodes[c].isFolder

\* findFirstFolderWithFiles: the node itself when a file lies directly in
\* it, else the first hit among its folder children in Map order, else null
RECURSIVE findFirstFolderWithFiles(_, _)
RECURSIVE firstAmongChildren(_, _, _)
firstAmongChildren(nodes, p, k) ==
    IF k > Len(nodes[p].keys) THEN [found |-> FALSE, path |-> <<>>]
    ELSE LET child == Append(p, nodes[p].keys[k])
             hit == IF nodes[child].isFolder
                    THEN findFirstFolderWithFiles(nodes, child)
                    ELSE [found |-> FALSE, path |-> <<>>]
         IN IF hit.found THEN hit ELSE firstAmongChildren(nodes, p, k + 1)
findFirstFolderWithFiles(nodes, p) ==
    IF \E c \in childPaths(nodes, p) : ~nodes[c].isFolder
    THEN [found |-> TRUE, path |-> p]
    ELSE firstAmongChildren(nodes, p, 1)

\* an output line: the node it names, whether it is the "..." marker, the
\* child it was pushed for, and the number of prefix units before it
Line(marker, path, of, depth) == [marker |-> marker, path |-> path, of |-> of, depth |-> depth]
RECURSIVE renderTree(_, _, _)
RECURSIVE renderEntries(_, _, _, _)
renderEntries(nodes, p, depth, index) ==
    IF index > Len(entries(nodes, p)) THEN <<>>
    ELSE LET child == Append(p, entries(nodes, p)[index])
             lastDescendant == findFirstFolderWithFiles(nodes, child)
             here == IF /\ hasOnlyFolderChildren(nodes, child)
                        /\ Len(nodes[child].keys) > 0
                        /\ lastDescendant.found
                     THEN <<Line(TRUE, lastDescendant.path, child, depth)>>
                          \o renderTree(nodes, lastDescendant.path, depth + 1)
                     ELSE <<Line(FALSE, child, child, depth)>>
                          \o (IF Len(nodes[child].keys) > 0
                              THEN renderTree(nodes, child, depth + 1)
                              ELSE <<>>)
         IN here \o renderEntries(nodes, p, depth, index + 1)
renderTree(nodes, p, depth) == renderEntries(nodes, p, depth, 1)

\* one turn of the loop over localSources
InsertSource ==
    /\ ~listing.rendered
    /\ Len(listing.inserted) < MaxSources
    /\ \E source \in LocalSources :
          listing' = [listing EXCEPT !.inserted = Append(@, source),
                                     !.nodes = IF source.hasSegments
                                               THEN insertSegments(listing.nodes, source, 1)
                                               ELSE listing.nodes]
    /\ UNCHANGED <<runVars, queueVars, call, collection, queueOpen, tracker>>

\* this.renderTree(root, '', lines), once the loop is over
RenderTree ==
    /\ ~listing.rendered
    /\ listing' = [listing EXCEPT !.rendered = TRUE,
                                  !.lines = renderTree(listing.nodes, <<>>, 0)]
    /\ UNCHANGED <<runVars, queueVars, call, collection, queueOpen, tracker>>


TreeInit ==
    /\ impl = "inline"
    /\ args = [maxConcurrent |-> Undef, retryAttempts |-> Undef, retryDelay |-> Undef]
    /\ queueFile = <<>>
    /\ queueExists = FALSE
    /\ initial = <<>>
    /\ processingExists = FALSE
    /\ processingFile = <<>>
    /\ pc = "access"
    /\ items = <<>>
    /\ batch = <<>>
    /\ task = [i \in Ids |-> NewTask]
    /\ result = [completed |-> 0, failed |-> 0, errors |-> <<>>]
    /\ response = "none"
    /\ stored = {}
    /\ batchSizes = <<>>
    /\ completedIds = {}
    /\ ioFailed = FALSE
    /\ call = NoCall
    /\ collection = {}
    /\ queueOpen = FALSE
    /\ RestInit

TreeNext ==
    \/ InsertSource
    \/ RenderTree

TreeSpec == TreeInit /\ [][TreeNext]_vars

Inserted == {listing.inserted[k] : k \in 1 .. Len(listing.inserted)}
Node(path) == listing.nodes[path]
ChildrenOf(path) == {Node(path).keys[k] : k \in 1 .. Len(Node(path).keys)}
ExactChildren(path, names) ==
    /\ ChildrenOf(path) = names
    /\ Len(Node(path).keys) = Cardinality(names)

\* C30: the tree built from the records [a, b, c.md] and [a, d.md], neither
\* a folder, has a root with the single child a; a is a folder whose
\* children are exactly b, a folder, and d.md, a file; b has exactly the one
\* child c.md, a file; and this is so in whichever order the records are
\* inserted.
C30_TreeOfTwoRecords ==
    Inserted = {Rec_abc, Rec_ad} =>
        /\ DOMAIN listing.nodes =
               {<<>>, <<"a">>, <<"a", "b">>, <<"a", "b", "c.md">>, <<"a", "d.md">>}
        /\ ExactChildren(<<>>, {"a"})
        /\ Node(<<"a">>).isFolder /\ ExactChildren(<<"a">>, {"b", "d.md"})
        /\ Node(<<"a", "b">>).isFolder /\ ExactChildren(<<"a", "b">>, {"c.md"})
        /\ ~Node(<<"a", "b", "c.md">>).isFolder /\ ExactChildren(<<"a", "b", "c.md">>, {})
        /\ ~Node(<<"a", "d.md">>).isFolder /\ ExactChildren(<<"a", "d.md">>, {})

C30_Witness ==
    /\ listing.inserted = <<Rec_ad, Rec_abc>>
    /\ Node(<<"a">>).keys = <<"d.md", "b">>
    /\ Node(<<"a", "b">>).isFolder
    /\ Node(<<"a", "b">>).keys = <<"c.md">>


\* the records were inserted in an order the sort can leave them in
InSortOrder ==
    \A k \in 1 .. Len(listing.inserted) - 1 :
        notAfter(listing.inserted[k].pathSegments, listing.inserted[k + 1].pathSegments)
WithSegments == {r \in Inserted : r.hasSegments}
IntermediatePaths ==
    UNION {{SubSeq(r.pathSegments, 1, i) : i \in 1 .. Len(r.pathSegments) - 1} : r \in WithSegments}
LastPaths == {r.pathSegments : r \in WithSegments}

\* C31: in the tree built from any stored records, every node reached as a
\* non-last segment of some record is a folder, so every node with at least
\* one child is a folder, and a node reached only as the last segment of
\* records has the isFolder value of its record.
C31_IntermediateNodesAreFolders ==
    InSortOrder =>
        /\ \A p \in IntermediatePaths : Node(p).isFolder
        /\ \A p \in DOMAIN listing.nodes : Len(Node(p).keys) > 0 => Node(p).isFolder
        /\ \A p \in LastPaths \ IntermediatePaths :
              \E r \in WithSegments : r.pathSegments = p /\ Node(p).isFolder = r.isFolder


Rendered == listing.rendered /\ InSortOrder
OwnLine(p) == \E k \in 1 .. Len(listing.lines) : ~listing.lines[k].marker /\ listing.lines[k].path = p
FileNodes == {p \in DOMAIN listing.nodes : ~Node(p).isFolder}

\* C35: every stored local file record that has pathSegments appears in the
\* list_sources output: each file node of the tree is rendered on a line
\* of its own, also when it lies in a folder whose sibling folder was the
\* target of an ellipsis.
C35_EveryFileIsListed ==
    Rendered => \A p \in FileNodes : OwnLine(p)


Lines == listing.lines
LineOf(c) == CHOOSE k \in 1 .. Len(Lines) : Lines[k].of = c
Shown(c) == \E k \in 1 .. Len(Lines) : Lines[k].of = c
Names(p) == \E k \in 1 .. Len(Lines) : Lines[k].path = p
HasFileDirectly(p) == \E c \in childPaths(listing.nodes, p) : ~Node(c).isFolder
\* the folders below p, p included, that hold a file directly, and the one
\* a walk folder by folder in alphabetical order meets first
RECURSIVE FirstWithFiles(_, _)
FirstWithFiles(p, index) ==
    IF HasFileDirectly(p) THEN <<p>>
    ELSE IF index > Len(entries(listing.nodes, p)) THEN <<>>
    ELSE LET c == Append(p, entries(listing.nodes, p)[index])
             below == IF Node(c).isFolder THEN FirstWithFiles(c, 1) ELSE <<>>
         IN IF below # <<>> THEN below ELSE FirstWithFiles(p, index + 1)

\* C32: in the rendered tree a folder is replaced by an ellipsis marker only
\* when no file lies directly in it, and the marker names the first
\* descendant folder that contains files; a folder that directly contains
\* files has a line of its own with its children listed beneath it, folders
\* before files and alphabetically within a level.
C32_EllipsisAndOrder ==
    Rendered =>
        /\ \A k \in 1 .. Len(Lines) :
              Lines[k].marker =>
                  /\ Node(Lines[k].of).isFolder
                  /\ ~HasFileDirectly(Lines[k].of)
                  /\ <<Lines[k].path>> = FirstWithFiles(Lines[k].of, 1)
        /\ \A p \in DOMAIN listing.nodes \ {<<>>} :
              (Node(p).isFolder /\ HasFileDirectly(p)) =>
                  /\ Names(p)
                  /\ LET kids == entries(listing.nodes, p)
                         line == CHOOSE k \in 1 .. Len(Lines) : Lines[k].path = p
                     IN /\ \A i \in 1 .. Len(kids) :
                              /\ Shown(Append(p, kids[i]))
                              /\ LineOf(Append(p, kids[i])) > line
                              /\ Lines[LineOf(Append(p, kids[i]))].depth = Lines[line].depth + 1
                        /\ \A i, j \in 1 .. Len(kids) :
                              i < j => LineOf(Append(p, kids[i])) < LineOf(Append(p, kids[j]))
                        /\ \A i, j \in 1 .. Len(kids) :
                              (i < j /\ Node(Append(p, kids[i])).isFolder
                                      = Node(Append(p, kids[j])).isFolder)
                                  => segmentRank[kids[i]] < segmentRank[kids[j]]
                        /\ \A i, j \in 1 .. Len(kids) :
                              (i < j /\ Node(Append(p, kids[j])).isFolder)
                                  => Node(Append(p, kids[i])).isFolder



\* ------------------------------ queue tools called while a batch is in flight
\* one call of a queue tool made while run_queue waits for its batch
DuringBatch == pc = "batch" /\ call = NoCall
EnqueueDuringBatch ==
    /\ DuringBatch
    /\ Enqueue
RemoveDuringBatch ==
    /\ DuringBatch
    /\ RemoveFromQueue
ClearDuringBatch ==
    /\ DuringBatch
    /\ ClearQueue

ConcurrentInit ==
    /\ Init
    /\ args.maxConcurrent = Num(1)
    /\ Len(initial) < MaxQueue

ConcurrentNext ==
    \/ Next
    \/ EnqueueDuringBatch
    \/ RemoveDuringBatch
    \/ ClearDuringBatch

ConcurrentSpec == ConcurrentInit /\ [][ConcurrentNext]_vars

\* the end-of-batch rewrite of queue.txt
Rewrite == pc = "write" /\ pc' # "error"
WithoutBatch(file) == SelectSeq(file, LAMBDA l : l.id \notin BatchIds(batch))

\* C33: when another queue operation runs while a batch is in flight, the
\* end-of-batch rewrite removes only that batch's items from what the store
\* then holds: an entry appended meanwhile is still queued, and an entry
\* removed meanwhile does not come back.
C33_RewriteKeepsConcurrentChanges ==
    [][Rewrite => ReadAll(queueFile') = ReadAll(WithoutBatch(queueFile))]_vars


\* C34: after a remove_documentation request for a path target reports
\* success, no stored point whose url is that of a matched document is left
\* in the collection, however many chunks the document has and however many
\* points the collection holds.
C34_NoChunkOfMatchedDocumentRemains ==
    (RemovalCall /\ Len(CallPaths) > 0 /\ ~call.response.isError) =>
        \A r \in Matched, q \in collection : payloadUrl[q] # payloadUrl[r]


\* C36: remove_from_queue changes nothing but the entries it reports as
\* removed: the queue read afterwards is the queue read before without the
\* entries that are exactly a requested item, every other entry kept with
\* its multiplicity and in its order, and the reported remaining count is
\* the number of entries then in the queue.
C36_RemoveKeepsOtherEntries ==
    RemoveCall =>
        /\ ReadAll(queueFile) =
               SelectSeq(ReadAll(call.before), LAMBDA entry : ~Has(Asked, entry))
        /\ call.response.count = Len(ReadAll(queueFile))


\* C37: for every queue and every maxConcurrent, retryAttempts and
\* retryDelay the run accepts, with no other operation touching the queue,
\* no batch is empty, every rewrite of the queue leaves fewer entries than
\* it found, and the run eventually returns.
C37_BatchesShrinkQueueAndRunReturns ==
    /\ [](\A b \in 1 .. Len(batchSizes) : batchSizes[b] >= 1)
    /\ [][Rewrite => Len(queueFile') < Len(queueFile)]_vars
    /\ <>(pc \in {"done", "error"})


TrackerCalls(op) == SelectSeq(tracker.calls, LAMBDA c : c.op = op)
Processing(t) == t.arrays[t.progress.processing]
Errors(t) == t.arrays[t.progress.errors]
LastCall(t) == t.calls[Len(t.calls)]

\* C39: after any sequence of startProcessing, completeItem and failItem
\* calls, failed is the length of the errors list, errors lists the failed
\* items in the order of the failItem calls, completed is the number of
\* completeItem calls, and a completeItem or failItem call leaves in
\* processing exactly the items that were in it other than the one passed.
C39_CountsAndListsAgree ==
    /\ [](tracker.clean =>
            /\ tracker.progress.failed = Len(Errors(tracker))
            /\ Len(Errors(tracker)) = Len(TrackerCalls("failItem"))
            /\ \A k \in 1 .. Len(Errors(tracker)) :
                  Errors(tracker)[k].item = TrackerCalls("failItem")[k].item
            /\ tracker.progress.completed = Len(TrackerCalls("completeItem")))
    /\ [][(/\ tracker'.clean
           /\ Len(tracker'.calls) > Len(tracker.calls)
           /\ LastCall(tracker').op \in {"completeItem", "failItem"}) =>
              Processing(tracker') =
                  SelectSeq(Processing(tracker), LAMBDA i : i # LastCall(tracker').item)]_vars

C39_Witness ==
    /\ tracker.clean
    /\ Len(tracker.calls) = 3
    /\ tracker.calls[1] = [op |-> "startProcessing", item |-> <<HttpUrl, GoodPath>>]
    /\ tracker.calls[2] = [op |-> "failItem", item |-> GoodPath]
    /\ tracker.calls[3] = [op |-> "failItem", item |-> HttpUrl]
    /\ Processing(tracker) = <<>>
    /\ tracker.progress.failed = 2
    /\ Errors(tracker)[1].item = GoodPath /\ Errors(tracker)[2].item = HttpUrl

====
